---- MODULE Spec2Model ----
(***************************************************************************)
(* A model of pdflu: PDF metadata extraction (parse.py), result ranking    *)
(* and bibliography-entry resolution (search.py) and the string helpers    *)
(* (utilities.py).                                                         *)
(*                                                                         *)
(* Python strings are sequences of one-character TLA+ strings; a character *)
(* outside ASCII, a quote or a backslash is written by its name ("Eacute", *)
(* "dquote").  Optional[str] is a sequence of length at most one: None is  *)
(* <<>> and the string s is <<s>>.                                         *)
(***************************************************************************)
EXTENDS Integers, Sequences, FiniteSets, TLC

\* ------------------------------------------------------------------------
\* Bounds of the model
\* ------------------------------------------------------------------------
MaxStrLen == 3

MaxResults == 3

MaxCands == 3

MaxTitleChars == 6

MaxCalls == 3

MaxContainers == 2

MaxAnnots == 2

\* The limit handed to the providers (max_query_results), kept small.
Limit == 2

\* ------------------------------------------------------------------------
\* Python values and string primitives
\* ------------------------------------------------------------------------
None == <<>>

Some(s) == <<s>>

\* Python truthiness of an Optional[str]: neither None nor ''.
Truthy(o) == o # None /\ o[1] # <<>>

SeqToSet(s) == {s[i] : i \in 1..Len(s)}

Max(S) == CHOOSE x \in S : \A y \in S : y <= x

Min(S) == CHOOSE x \in S : \A y \in S : x <= y

\* All strings over alphabet A of length at most n.
Strs(A, n) == UNION {[1..k -> A] : k \in 0..n}

ascii_lowercase ==
    <<"a","b","c","d","e","f","g","h","i","j","k","l","m",
      "n","o","p","q","r","s","t","u","v","w","x","y","z">>

ascii_uppercase ==
    <<"A","B","C","D","E","F","G","H","I","J","K","L","M",
      "N","O","P","Q","R","S","T","U","V","W","X","Y","Z">>

digits == <<"0","1","2","3","4","5","6","7","8","9">>

punctuation ==
    <<"!","dquote","#","$","%","&","quote","(",")","*","+",",","-",".","/",
      ":",";","<","=",">","?","@","[","backslash","]","^","_","backquote",
      "{","|","}","~">>

\* str.lower() on one character: ASCII capitals and the capital E acute have
\* a lowercase form, every other character of the model is its own.
LowerChar(c) ==
    IF c \in SeqToSet(ascii_uppercase)
    THEN ascii_lowercase[CHOOSE i \in 1..26 : ascii_uppercase[i] = c]
    ELSE IF c = "Eacute" THEN "eacute" ELSE c

lower(s) == [i \in 1..Len(s) |-> LowerChar(s[i])]

\* ''.join(char for char in s if char in valid)
RECURSIVE FilterChars(_, _)
FilterChars(s, valid) ==
    IF s = <<>> THEN <<>>
    ELSE (IF Head(s) \in valid THEN <<Head(s)>> ELSE <<>>)
         \o FilterChars(Tail(s), valid)

\* Whether sep occurs in s at position p.
OccursAt(s, sep, p) ==
    /\ p >= 1
    /\ p + Len(sep) - 1 <= Len(s)
    /\ \A j \in 1..Len(sep) : s[p + j - 1] = sep[j]

\* s.split(sep) for a non-empty separator: a list of strings, with an empty
\* string between adjacent separators and for an empty s.
RECURSIVE split(_, _)
split(s, sep) ==
    LET P == {p \in 1..Len(s) : OccursAt(s, sep, p)}
    IN IF P = {} THEN <<s>>
       ELSE LET p == Min(P)
            IN <<SubSeq(s, 1, p - 1)>>
               \o split(SubSeq(s, p + Len(sep), Len(s)), sep)

\* s.count(c) for a one-character c.
count(s, c) == Cardinality({i \in 1..Len(s) : s[i] = c})

\* ------------------------------------------------------------------------
\* utilities.py
\* ------------------------------------------------------------------------
KeyValid == SeqToSet(ascii_lowercase) \cup SeqToSet(digits) \cup {"_"}

clean_string_for_key(s) ==
    LET s_nospace == [i \in 1..Len(s) |->
                        IF LowerChar(s[i]) = " " THEN "_" ELSE LowerChar(s[i])]
    IN FilterChars(s_nospace, KeyValid)

QueryValid_withUnderscore ==
    SeqToSet(ascii_lowercase) \cup SeqToSet(digits) \cup {" ", "_"}

QueryValid == SeqToSet(ascii_lowercase) \cup SeqToSet(digits) \cup {" "}

\* s is an Optional[str]; the result is a str.
clean_string_for_query(s) ==
    IF s = None THEN <<>>
    ELSE LET l == lower(s[1])
         IN [i \in 1..Len(l) |-> IF l[i] \in QueryValid THEN l[i] ELSE " "]

\* ------------------------------------------------------------------------
\* parse.py: building the title from the recorded candidates
\* ------------------------------------------------------------------------
\* The whitespace characters str.strip() and the pattern \s know.
Whitespace == {" ", "\n", "\t", "\r"}

RECURSIVE lstrip(_)
lstrip(s) ==
    IF s # <<>> /\ Head(s) \in Whitespace THEN lstrip(Tail(s)) ELSE s

RECURSIVE rstrip(_)
rstrip(s) ==
    IF s # <<>> /\ s[Len(s)] \in Whitespace
    THEN rstrip(SubSeq(s, 1, Len(s) - 1)) ELSE s

strip(s) == rstrip(lstrip(s))

\* A mutant: a title of exactly max_chars characters is refused.
Fits_strictlyBelow(query, chunk, max_chars) ==
    Len(query \o <<" ">> \o chunk) < max_chars

\* A mutant: the test forgets the text accumulated so far.
Fits_chunkOnly(query, chunk, max_chars) == Len(chunk) <= max_chars

\* len(query + ' ' + chunk) <= max_chars
Fits(query, chunk, max_chars) ==
    Len(query \o <<" ">> \o chunk) <= max_chars

\* The loop over zip(text_chunks, text_sizes), after its first n rounds.
RECURSIVE BuildQuery(_, _, _, _, _)
BuildQuery(text_chunks, text_sizes, threshold_size, max_chars, n) ==
    IF n = 0 THEN <<>>
    ELSE LET query == BuildQuery(text_chunks, text_sizes, threshold_size,
                                 max_chars, n - 1)
         IN IF /\ text_sizes[n] >= threshold_size
               /\ Fits(query, text_chunks[n], max_chars)
            THEN query \o <<" ">> \o text_chunks[n]
            ELSE query

\* A mutant: the threshold is the smallest size, so every candidate passes.
BuildTitle_minThreshold(text_chunks, text_sizes, max_chars) ==
    LET threshold_size == Min(SeqToSet(text_sizes))
        n == Min({Len(text_chunks), Len(text_sizes)})
    IN strip(BuildQuery(text_chunks, text_sizes, threshold_size,
                        max_chars, n))

\* Lines 312-319 for a non-empty list of sizes: the title as a str.
BuildTitle(text_chunks, text_sizes, max_chars) ==
    LET threshold_size == Max(SeqToSet(text_sizes))
        n == Min({Len(text_chunks), Len(text_sizes)})
    IN strip(BuildQuery(text_chunks, text_sizes, threshold_size,
                        max_chars, n))

\* ------------------------------------------------------------------------
\* parse.py: the patterns for arXiv IDs and DOIs
\* ------------------------------------------------------------------------
\* re.match anchors at the start of the text and '.' matches no newline, so
\* the leading '.*' of each pattern covers a piece of the first line only.
\* It is greedy: of the places where the rest of the pattern matches, the
\* last one is taken.
NoNewlineBefore(text, p) == \A j \in 1..(p - 1) : text[j] # "\n"

\* The length of the longest run of characters of S in text from place p on.
RunLen(text, p, S) ==
    Max({k \in 0..(Len(text) - p + 1) :
            \A j \in 0..(k - 1) : text[p + j] \in S})

Digits == SeqToSet(digits)

\* \d\d\d\d\.\d\d\d\d\d? at place p: the length matched, 0 for no match.
NewArxivIdLen(text, p) ==
    IF /\ p >= 1
       /\ p + 8 <= Len(text)
       /\ \A j \in 0..3 : text[p + j] \in Digits
       /\ text[p + 4] = "."
       /\ \A j \in 5..8 : text[p + j] \in Digits
    THEN IF p + 9 <= Len(text) /\ text[p + 9] \in Digits THEN 10 ELSE 9
    ELSE 0

\* new_arxiv_name_re = r'.*(\d\d\d\d\.\d\d\d\d\d?).*': group 1, or None.
MatchNewArxivName(text) ==
    LET P == {p \in 1..Len(text) :
                NoNewlineBefore(text, p) /\ NewArxivIdLen(text, p) > 0}
    IN IF P = {} THEN None
       ELSE LET p == Max(P)
            IN Some(SubSeq(text, p, p + NewArxivIdLen(text, p) - 1))

ArxivMarker == <<"a", "r", "X", "i", "v", ":">>

\* new_arxiv_text_re = r'.*arXiv\:(\d\d\d\d\.\d\d\d\d\d?).*'
MatchNewArxivText(text) ==
    LET P == {p \in 1..Len(text) :
                /\ NoNewlineBefore(text, p)
                /\ OccursAt(text, ArxivMarker, p)
                /\ NewArxivIdLen(text, p + 6) > 0}
    IN IF P = {} THEN None
       ELSE LET p == Max(P) + 6
            IN Some(SubSeq(text, p, p + NewArxivIdLen(text, p) - 1))

\* Whether '/' and seven digits stand at place q.
SlashSevenDigits(text, q) ==
    /\ q + 7 <= Len(text)
    /\ text[q] = "/"
    /\ \A j \in 1..7 : text[q + j] \in Digits

\* old_arxiv_text_re = r'.*arXiv\:(.*\/\d\d\d\d\d\d\d).*'
MatchOldArxivText(text) ==
    LET Q(p) == {q \in (p + 6)..Len(text) :
                   NoNewlineBefore(text, q) /\ SlashSevenDigits(text, q)}
        P == {p \in 1..Len(text) :
                /\ NoNewlineBefore(text, p)
                /\ OccursAt(text, ArxivMarker, p)
                /\ Q(p) # {}}
    IN IF P = {} THEN None
       ELSE LET p == Max(P)
            IN Some(SubSeq(text, p + 6, Max(Q(p)) + 7))

\* [-._;()/:A-Z0-9] under re.IGNORECASE
DoiChars ==
    {"-", ".", "_", ";", "(", ")", "/", ":"} \cup SeqToSet(ascii_uppercase)
    \cup SeqToSet(ascii_lowercase) \cup Digits

\* 10.\d{4,9}\/[-._;()/:A-Z0-9]+ at place p: the length matched, 0 for no
\* match.  The '.' is not escaped: any character but a newline.
DoiLen(text, p) ==
    IF /\ p + 2 <= Len(text)
       /\ text[p] = "1"
       /\ text[p + 1] = "0"
       /\ text[p + 2] # "\n"
    THEN LET k == RunLen(text, p + 3, Digits)
         IN IF /\ k >= 4
               /\ k <= 9
               /\ p + 3 + k <= Len(text)
               /\ text[p + 3 + k] = "/"
               /\ RunLen(text, p + 4 + k, DoiChars) >= 1
            THEN 4 + k + RunLen(text, p + 4 + k, DoiChars)
            ELSE 0
    ELSE 0

\* doi_re = r'.*(10.\d{4,9}\/[-._;()/:A-Z0-9]+).*', flags=re.IGNORECASE
MatchDoi(text) ==
    LET P == {p \in 1..Len(text) :
                NoNewlineBefore(text, p) /\ DoiLen(text, p) > 0}
    IN IF P = {} THEN None
       ELSE LET p == Max(P)
            IN Some(SubSeq(text, p, p + DoiLen(text, p) - 1))

\* The arXiv ID of a text: the new form if it matches, else the old form.
MatchArxivText(text) ==
    IF MatchNewArxivText(text) # None THEN MatchNewArxivText(text)
    ELSE MatchOldArxivText(text)

\* ------------------------------------------------------------------------
\* parse.py: Metadata and the merge of parse_pdf
\* ------------------------------------------------------------------------
\* Metadata(): every field None.
EmptyMetadata ==
    [title |-> None, author |-> None, arxiv_id |-> None, doi |-> None]

\* Metadata.__bool__
MetadataBool(m) ==
    Truthy(m.title) \/ Truthy(m.author) \/ Truthy(m.arxiv_id) \/ Truthy(m.doi)

\* if a: a elif b: b elif c: c, on a field that starts as None.
FirstTruthy(a, b, c) ==
    IF Truthy(a) THEN a
    ELSE IF Truthy(b) THEN b
    ELSE IF Truthy(c) THEN c
    ELSE None

MergeTitle_metadataFirst(filename, pdf_metadata, pdf_text) ==
    FirstTruthy(pdf_metadata.title, pdf_text.title, filename.title)

MergeTitle(filename, pdf_metadata, pdf_text) ==
    FirstTruthy(pdf_text.title, pdf_metadata.title, filename.title)

MergeAuthor(filename, pdf_metadata, pdf_text) ==
    FirstTruthy(pdf_metadata.author, pdf_text.author, filename.author)

MergeArxivId_metadataBeforeFilename(filename, pdf_metadata, pdf_text) ==
    FirstTruthy(pdf_text.arxiv_id, pdf_metadata.arxiv_id, filename.arxiv_id)

MergeArxivId(filename, pdf_metadata, pdf_text) ==
    FirstTruthy(pdf_text.arxiv_id, filename.arxiv_id, pdf_metadata.arxiv_id)

MergeDoi_textFirst(filename, pdf_metadata, pdf_text) ==
    FirstTruthy(pdf_text.doi, pdf_metadata.doi, filename.doi)

MergeDoi(filename, pdf_metadata, pdf_text) ==
    FirstTruthy(pdf_metadata.doi, pdf_text.doi, filename.doi)

\* parse_pdf, lines 85-114.
Merge(filename, pdf_metadata, pdf_text) ==
    [title |-> MergeTitle(filename, pdf_metadata, pdf_text),
     author |-> MergeAuthor(filename, pdf_metadata, pdf_text),
     arxiv_id |-> MergeArxivId(filename, pdf_metadata, pdf_text),
     doi |-> MergeDoi(filename, pdf_metadata, pdf_text)]

\* ------------------------------------------------------------------------
\* parse.py: _parse_filename, _parse_pdf_metadata, _parse_pdf_text
\* ------------------------------------------------------------------------
\* _parse_filename: the Metadata of the stem of the path.
ParseFilename(stem) ==
    [EmptyMetadata EXCEPT !.arxiv_id = MatchNewArxivName(stem)]

\* bytes.decode('utf-8', errors='ignore'): a byte that is no UTF-8 is left
\* out.  The byte string is written as its characters, "xFF" being such a
\* byte.
Decode(b) == FilterChars(b, SeqToSet(b) \ {"xFF"})

\* Lines 170-176, for the URI of one annotation.
AnnotationUrl(metadata, url_b) ==
    LET id == MatchNewArxivName(Decode(url_b))
    IN IF id # None /\ metadata.arxiv_id = None
       THEN [metadata EXCEPT !.arxiv_id = id]
       ELSE metadata

\* The value of key in the info dictionary (a list of <<key, value>>), or
\* None when the key is missing.  A value is [bytes |-> b, text |-> t]: bytes
\* tells whether it has a decode method.
InfoGet(info, key) ==
    LET I == {i \in 1..Len(info) : info[i][1] = key}
    IN IF I = {} THEN None ELSE Some(info[Min(I)][2])

\* Lines 181-188 and 189-196: Title (Author) of the info dictionary, when
\* it is present, can be decoded and is not empty.
InfoField(info, key, old) ==
    LET v == InfoGet(info, key)
    IN IF v = None THEN old
       ELSE IF ~v[1].bytes THEN old
       ELSE IF Decode(v[1].text) # <<>> THEN Some(Decode(v[1].text))
       ELSE old

\* Lines 197-216: the loop over the items of the info dictionary, after its
\* first n rounds.
RECURSIVE InfoItems(_, _, _)
InfoItems(metadata, info, n) ==
    IF n = 0 THEN metadata
    ELSE LET m == InfoItems(metadata, info, n - 1)
             value_b == info[n][2]
         IN IF ~value_b.bytes THEN m
            ELSE LET value == Decode(value_b.text)
                     id == MatchArxivText(value)
                     m1 == IF id # None /\ m.arxiv_id = None
                           THEN [m EXCEPT !.arxiv_id = id] ELSE m
                     match_doi == MatchDoi(value)
                 IN IF match_doi # None /\ m1.doi = None
                    THEN [m1 EXCEPT !.doi = match_doi] ELSE m1

\* Lines 181-217 for an info dictionary.
ParseInfo(metadata, info) ==
    LET m1 == [metadata EXCEPT !.title = InfoField(info, "Title", @)]
        m2 == [m1 EXCEPT !.author = InfoField(info, "Author", @)]
    IN InfoItems(m2, info, Len(info))

\* element.get_text(): the text of all glyphs of all lines of the element.
RECURSIVE LinesText(_, _)
LinesText(lines, n) ==
    IF n = 0 THEN <<>>
    ELSE LinesText(lines, n - 1)
         \o [i \in 1..Len(lines[n]) |-> lines[n][i].text]

get_text(element) == LinesText(element.lines, Len(element.lines))

\* A mutant: a later match replaces the identifier recorded before.
TextIdentifiers_overwrites(metadata, text) ==
    LET id == MatchArxivText(text)
        m1 == IF id # None THEN [metadata EXCEPT !.arxiv_id = id] ELSE metadata
        match_doi == MatchDoi(text)
    IN IF match_doi # None THEN [m1 EXCEPT !.doi = match_doi] ELSE m1

\* Lines 259-273: the identifiers found in the text of one element.
TextIdentifiers(metadata, text) ==
    LET id == MatchArxivText(text)
        m1 == IF id # None /\ metadata.arxiv_id = None
              THEN [metadata EXCEPT !.arxiv_id = id] ELSE metadata
        match_doi == MatchDoi(text)
    IN IF match_doi # None /\ m1.doi = None
       THEN [m1 EXCEPT !.doi = match_doi] ELSE m1

valid_chars ==
    SeqToSet(ascii_lowercase) \cup SeqToSet(ascii_uppercase)
    \cup SeqToSet(digits) \cup SeqToSet(punctuation) \cup {" ", "\n"}

\* re.sub(r'\s+', ' ', s)
RECURSIVE CollapseWhitespace(_)
CollapseWhitespace(s) ==
    IF s = <<>> THEN <<>>
    ELSE IF Head(s) \in Whitespace
         THEN <<" ">> \o CollapseWhitespace(lstrip(s))
         ELSE <<Head(s)>> \o CollapseWhitespace(Tail(s))

\* Lines 282-288: text_stripped.
TextStripped(text) == strip(CollapseWhitespace(FilterChars(text, valid_chars)))

\* Lines 275-295: whether the element passes the line and word filters.
Accepted(text, limits) ==
    /\ count(text, "\n") <= limits.max_lines
    /\ count(TextStripped(text), " ") + 1 >= limits.min_words
    /\ count(TextStripped(text), " ") + 1 <= limits.max_words

\* int(ch.size), the size of a glyph being kept in tenths of a point.
IntSize(tenths) == tenths \div 10

\* Lines 298-307: char_size after the loops over the first line of the
\* element.  Only glyphs that are LTChar count; the loop over the lines is
\* left after the first line.  char_size is None while it is unbound.
CharSize(element, char_size) ==
    IF element.lines = <<>> THEN char_size
    ELSE LET chars == SelectSeq(element.lines[1], LAMBDA g : g.ltchar)
         IN IF chars = <<>> THEN char_size
            ELSE IF Len(chars) = 1 THEN Some(IntSize(chars[1].size))
            ELSE Some(IntSize(chars[2].size))

\* Lines 157-158 and 320-321: except pdfminer.pdfparser.PDFSyntaxError:
\* return Metadata(), whatever the pass had gathered in metadata.
OnPDFSyntaxError(metadata) == EmptyMetadata

\* ------------------------------------------------------------------------
\* search.py: rank_results
\* ------------------------------------------------------------------------
\* The number of words of the query found among the title words or the
\* author segments of res ("for word in query_words: ... count += 1").
CommonWords(res, query) ==
    LET query_words == split(clean_string_for_query(Some(query)), <<" ">>)
        title_words == split(clean_string_for_query(Some(res.title)), <<" ">>)
        author_words == split(clean_string_for_query(Some(res.author)),
                              <<" ", "a", "n", "d", " ">>)
    IN Cardinality({i \in 1..Len(query_words) :
                      \/ query_words[i] \in SeqToSet(title_words)
                      \/ query_words[i] \in SeqToSet(author_words)})

\* A mutant: ties come out in reverse input order, as an ascending sort
\* followed by a reversal gives them.
InsertByKeyDesc_tiesReversed(acc, pair) ==
    LET k == Cardinality({i \in 1..Len(acc) : acc[i][1] > pair[1]})
    IN SubSeq(acc, 1, k) \o <<pair>> \o SubSeq(acc, k + 1, Len(acc))

\* One step of sorted(..., key=lambda pair: pair[0], reverse=True): the pair
\* goes behind every pair already placed whose key is at least its own (the
\* sort is stable, also with reverse=True).
InsertByKeyDesc(acc, pair) ==
    LET k == Cardinality({i \in 1..Len(acc) : acc[i][1] >= pair[1]})
    IN SubSeq(acc, 1, k) \o <<pair>> \o SubSeq(acc, k + 1, Len(acc))

RECURSIVE SortedByKeyDesc(_, _)
SortedByKeyDesc(pairs, n) ==
    IF n = 0 THEN <<>>
    ELSE InsertByKeyDesc(SortedByKeyDesc(pairs, n - 1), pairs[n])

\* The list of counts, one per result, in input order.
common_words(results, query) ==
    [i \in 1..Len(results) |-> CommonWords(results[i], query)]

\* The results in ranked order.  A result object is named by its place in
\* the input list (two results of equal content stay two objects).
rank_results(results, query) ==
    LET cw == common_words(results, query)
        zipped == [i \in 1..Len(results) |-> <<cw[i], i>>]
        srt == SortedByKeyDesc(zipped, Len(zipped))
    IN [i \in 1..Len(srt) |-> srt[i][2]]

\* ------------------------------------------------------------------------
\* search.py: CrossrefResult, ArxivResult and get_entry
\* ------------------------------------------------------------------------
\* ' and '.join(names)
RECURSIVE JoinAnd(_)
JoinAnd(names) ==
    IF names = <<>> THEN <<>>
    ELSE IF Len(names) = 1 THEN names[1]
    ELSE names[1] \o <<" ", "a", "n", "d", " ">> \o JoinAnd(Tail(names))

\* CrossrefResult.author: one name per entry of raw['author'], the given
\* name before the family name, each left out when ''.
CrossrefName(entry) ==
    IF entry.given # <<>> /\ entry.family # <<>>
    THEN entry.given \o <<" ">> \o entry.family
    ELSE entry.given \o entry.family

\* A raw Crossref record: title is None when the key is missing and
\* Some(t) for the list [t]; DOI is None when the key is missing.
CrossrefTitle(raw) == IF raw.title = None THEN <<>> ELSE raw.title[1]

CrossrefAuthor(raw) ==
    JoinAnd([i \in 1..Len(raw.author) |-> CrossrefName(raw.author[i])])

CrossrefDoi(raw) == IF raw.DOI = None THEN <<>> ELSE raw.DOI[1]

\* A raw arXiv record: authors is None or Some(list of names).
ArxivTitle(raw) == IF raw.title = None THEN <<>> ELSE raw.title[1]

ArxivAuthor(raw) ==
    IF raw.authors = None THEN <<>> ELSE JoinAnd(raw.authors[1])

ArxivDoi(raw) == IF raw.doi = None THEN <<>> ELSE raw.doi[1]

\* The properties title, author and doi of a result of either class.
Title(res) ==
    IF res.variant = "crossref" THEN CrossrefTitle(res.raw)
    ELSE ArxivTitle(res.raw)

Author(res) ==
    IF res.variant = "crossref" THEN CrossrefAuthor(res.raw)
    ELSE ArxivAuthor(res.raw)

Doi(res) ==
    IF res.variant = "crossref" THEN CrossrefDoi(res.raw)
    ELSE ArxivDoi(res.raw)

\* A mutant: only None counts as no DOI.
NoDoi_onlyNone(doi) == doi = None

\* (self.doi is None) or (self.doi == '')
NoDoi(doi) == doi = None \/ doi = Some(<<>>)

\* A mutant: the key is not cleaned.
FallbackKey_notCleaned(author, title) ==
    split(author, <<" ">>)[1] \o <<"_">> \o split(title, <<" ">>)[1]

\* given = author.split(' ')[0]; title = title.split(' ')[0];
\* key = clean_string_for_key(given + '_' + title)
FallbackKey(author, title) ==
    LET given == split(author, <<" ">>)[1]
        first == split(title, <<" ">>)[1]
    IN clean_string_for_key(given \o <<"_">> \o first)

\* The entry bibtexparser reads from the @misc text of CrossrefResult.
CrossrefFallbackEntry(raw) ==
    [source |-> "synthesized",
     rev |-> 0,
     key |-> FallbackKey(CrossrefAuthor(raw), CrossrefTitle(raw)),
     title |-> CrossrefTitle(raw),
     author |-> CrossrefAuthor(raw),
     year |-> None,
     journaltitle |-> None,
     doi |-> <<>>]

\* The journaltitle of ArxivResult: {\tt arXiv:<id>} or {\tt arXiv:<id>[cat]},
\* id being what follows the last '/' of entry_id.
ArxivJournalTitle(raw) ==
    LET parts == split(raw.entry_id, <<"/">>)
        id == parts[Len(parts)]
        cat == raw.primary_category
    IN IF cat = None \/ cat = Some(<<>>)
       THEN <<"a", "r", "X", "i", "v", ":">> \o id
       ELSE <<"a", "r", "X", "i", "v", ":">> \o id \o <<"[">> \o cat[1]
            \o <<"]">>

ArxivFallbackEntry(raw) ==
    [source |-> "synthesized",
     rev |-> 0,
     key |-> FallbackKey(ArxivAuthor(raw), ArxivTitle(raw)),
     title |-> ArxivTitle(raw),
     author |-> ArxivAuthor(raw),
     year |-> Some(raw.year),
     journaltitle |-> Some(ArxivJournalTitle(raw)),
     doi |-> <<>>]

\* The entry read from what content negotiation answers for a DOI; rev
\* tells the answers of successive fetches apart.
FetchedEntry(doi, rev) ==
    [source |-> "fetched",
     rev |-> rev,
     key |-> <<"k">>,
     title |-> <<"t">>,
     author |-> <<"a">>,
     year |-> None,
     journaltitle |-> None,
     doi |-> doi]

\* A mutant: force_update does not bypass the cache.
MustResolve_ignoresForce(bibtex, force_update) == bibtex = None

\* Lines 96 and 159: if (self._bibtex is None) or force_update
MustResolve(bibtex, force_update) == bibtex = None \/ force_update

\* A mutant: a failed fetch empties the cache.
OnFetchFailure_clears(bibtex) == None

\* Lines 114-124 and 185-195: content_negotiation or parse_string(...)
\* .entries[0] raises before the assignment to self._bibtex is made.
OnFetchFailure(bibtex) == bibtex

\* get_entry of either class.  bibtex is self._bibtex; fetch_ok says whether
\* content negotiation and the parse of its answer succeed, should they be
\* called, and rev names the answer.  The result: the new self._bibtex, how the call ended ("cached",
\* "synthesized", "fetched", or "raised" when the fetch fails), the number
\* of network calls made and the value returned.
GetEntry(res, bibtex, force_update, fetch_ok, rev) ==
    IF MustResolve(bibtex, force_update)
    THEN IF NoDoi(Some(Doi(res)))
         THEN LET e == IF res.variant = "crossref"
                       THEN CrossrefFallbackEntry(res.raw)
                       ELSE ArxivFallbackEntry(res.raw)
              IN [bibtex |-> Some(e), how |-> "synthesized", net |-> 0,
                  ret |-> Some(e)]
         ELSE IF fetch_ok
              THEN [bibtex |-> Some(FetchedEntry(Doi(res), rev)),
                    how |-> "fetched", net |-> 1,
                    ret |-> Some(FetchedEntry(Doi(res), rev))]
              ELSE [bibtex |-> OnFetchFailure(bibtex), how |-> "raised",
                    net |-> 1,
                    ret |-> None]
    ELSE [bibtex |-> bibtex, how |-> "cached", net |-> 0, ret |-> bibtex]

\* ------------------------------------------------------------------------
\* State
\* ------------------------------------------------------------------------
VARIABLES
    cq_s,      \* clean_string_for_query: the argument, an Optional[str]
    cq_out,    \* its result
    cq_out2,   \* the result of cleaning cq_out again
    cq_pc,     \* "in", "once", "twice"
    rk_results,   \* rank_results: the input list of results
    rk_query,     \* the query string
    rk_common,    \* the count computed for each input result
    rk_sorted,    \* results_sorted, as places in rk_results
    rk_pc,        \* "in", "ranked"
    tb_chunks,    \* title building: text_chunks
    tb_sizes,     \* text_sizes
    tb_max_chars, \* max_chars
    tb_title,     \* the title built, an Optional[str]
    tb_pc,        \* "in", "built", "raised" (ValueError from max)
    mg_filename,      \* merge: the Metadata from the file name
    mg_pdf_metadata,  \* the Metadata from the document metadata
    mg_pdf_text,      \* the Metadata from the text
    mg_metadata,      \* the merged Metadata
    mg_pc,            \* "in", "merged"
    en_res,      \* get_entry: the result object, [variant, raw]
    en_bibtex,   \* self._bibtex: None or Some(entry)
    en_net,      \* content-negotiation calls made so far
    en_calls,    \* get_entry calls made so far
    en_last,     \* the last call: [force_update, how, ret]
    pp_pc,         \* parse_pdf: where the call stands
    pp_stem,       \* path.stem
    pp_limits,     \* max_lines, min_words, max_words, max_chars
    pp_exc,        \* the exception that left parse_pdf, "none" if none
    filename,      \* the Metadata of _parse_filename
    m_metadata,    \* _parse_pdf_metadata: its local metadata
    m_annots,      \* the annotations examined so far
    m_annot,       \* the annotation examined last, None before the first
    m_info,        \* doc.info as read, None before
    m_syn,         \* where a PDFSyntaxError was signalled in it, or "none"
    m_outcome,     \* "pending", "returned", "raised"
    pdf_metadata,  \* what _parse_pdf_metadata returned
    t_metadata,    \* _parse_pdf_text: its local metadata
    text_chunks,   \* text_chunks
    text_sizes,    \* text_sizes
    char_size,     \* char_size, None while unbound
    t_scanned,     \* the page elements scanned so far
    t_element,     \* the element scanned last, None before the first
    t_syn,         \* whether a PDFSyntaxError was signalled in it
    t_outcome,     \* "pending", "returned", "raised"
    pdf_text,      \* what _parse_pdf_text returned
    metadata,      \* the merged Metadata of parse_pdf
    lk_pc,            \* lookup: where the command stands
    lk_query,         \* the --query option, None if not given
    lk_interactive,   \* the --interactive flag
    lk_metadata,      \* what parse_pdf returned
    qs_query,         \* the query of _query_string, None before it is called
    entries_crossref, \* _query_string: entries_crossref
    entries_arxiv,    \* _query_string: entries_arxiv
    entries,          \* lookup: entries
    lk_calls,         \* the provider calls issued so far, in order
    lk_failed,        \* the providers whose call met an error
    sel_str,          \* lookup: sel_str, None before the prompt
    sel,              \* lookup: sel, None while unbound
    selected_entry,   \* lookup: selected_entry, None while unbound
    lk_exit,          \* "running", "ok" (status 0) or "error"
    lk_exc,           \* the exception that ended the command, or "none"
    lk_out            \* the headings printed so far

cleanVars == <<cq_s, cq_out, cq_out2, cq_pc>>

rankVars == <<rk_results, rk_query, rk_common, rk_sorted, rk_pc>>

titleVars == <<tb_chunks, tb_sizes, tb_max_chars, tb_title, tb_pc>>

mergeVars == <<mg_filename, mg_pdf_metadata, mg_pdf_text, mg_metadata, mg_pc>>

entryVars == <<en_res, en_bibtex, en_net, en_calls, en_last>>

parseVars ==
    <<pp_pc, pp_stem, pp_limits, pp_exc, filename, m_metadata, m_annots,
      m_annot, m_info,
      m_syn, m_outcome, pdf_metadata, t_metadata, text_chunks, text_sizes,
      char_size, t_scanned, t_element, t_syn, t_outcome, pdf_text, metadata>>

lookupVars ==
    <<lk_pc, lk_query, lk_interactive, lk_metadata, qs_query,
      entries_crossref, entries_arxiv, entries, lk_calls, lk_failed, sel_str,
      sel, selected_entry, lk_exit, lk_exc, lk_out>>

vars ==
    <<cleanVars, rankVars, titleVars, mergeVars, entryVars, parseVars,
      lookupVars>>

\* What an action of one component leaves alone: the other components.
exceptClean ==
    <<rankVars, titleVars, mergeVars, entryVars, parseVars, lookupVars>>

exceptRank ==
    <<cleanVars, titleVars, mergeVars, entryVars, parseVars, lookupVars>>

exceptTitle ==
    <<cleanVars, rankVars, mergeVars, entryVars, parseVars, lookupVars>>

exceptMerge ==
    <<cleanVars, rankVars, titleVars, entryVars, parseVars, lookupVars>>

exceptEntry ==
    <<cleanVars, rankVars, titleVars, mergeVars, parseVars, lookupVars>>

exceptParse ==
    <<cleanVars, rankVars, titleVars, mergeVars, entryVars, lookupVars>>

exceptLookup ==
    <<cleanVars, rankVars, titleVars, mergeVars, entryVars, parseVars>>

\* ------------------------------------------------------------------------
\* clean_string_for_query applied to bounded inputs
\* ------------------------------------------------------------------------
\* One representative of each class of character the function tells apart.
CleanAlphabet == {"A", "a", "7", " ", "_", "-", "Eacute"}

CleanIdle ==
    /\ cq_s = None
    /\ cq_out = <<>>
    /\ cq_out2 = <<>>
    /\ cq_pc = "idle"

CleanInit ==
    /\ cq_s \in {None} \cup {Some(x) : x \in Strs(CleanAlphabet, MaxStrLen)}
    /\ cq_out = <<>>
    /\ cq_out2 = <<>>
    /\ cq_pc = "in"

CleanOnce ==
    /\ cq_pc = "in"
    /\ cq_out' = clean_string_for_query(cq_s)
    /\ cq_pc' = "once"
    /\ UNCHANGED <<cq_s, cq_out2>>
    /\ UNCHANGED exceptClean

CleanTwice ==
    /\ cq_pc = "once"
    /\ cq_out2' = clean_string_for_query(Some(cq_out))
    /\ cq_pc' = "twice"
    /\ UNCHANGED <<cq_s, cq_out>>
    /\ UNCHANGED exceptClean

CleanNext == CleanOnce \/ CleanTwice

\* ------------------------------------------------------------------------
\* rank_results applied to bounded inputs
\* ------------------------------------------------------------------------
AttentionQuery ==
    <<"a","t","t","e","n","t","i","o","n"," ","i","s"," ","a","l","l",
      " ","y","o","u"," ","n","e","e","d">>

AttentionTitle ==
    <<"A","t","t","e","n","t","i","o","n"," ","I","s"," ","A","l","l",
      " ","Y","o","u"," ","N","e","e","d">>

SurveyTitle ==
    <<"A"," ","S","u","r","v","e","y">>

\* "attention: is all": the colon cleans to a space, so the cleaned query
\* holds an empty word.
PunctQuery ==
    <<"a","t","t","e","n","t","i","o","n",":"," ","i","s"," ","a","l",
      "l">>

SurveyQuery ==
    <<"s","u","r","v","e","y"," ","l","e","e">>

VaswaniShazeer ==
    <<"A","s","h","i","s","h"," ","V","a","s","w","a","n","i"," ","a",
      "n","d"," ","N","o","a","m"," ","S","h","a","z","e","e","r">>

AnnLee ==
    <<"A","n","n"," ","L","e","e">>

QueryPool == {AttentionQuery, PunctQuery, SurveyQuery}

ResultPool ==
    { [title |-> AttentionTitle, author |-> VaswaniShazeer],
      [title |-> SurveyTitle, author |-> AnnLee],
      [title |-> SurveyTitle, author |-> <<>>],
      [title |-> <<>>, author |-> AnnLee] }

RankIdle ==
    /\ rk_results = <<>>
    /\ rk_query = <<>>
    /\ rk_common = <<>>
    /\ rk_sorted = <<>>
    /\ rk_pc = "idle"

RankInit ==
    /\ rk_results \in UNION {[1..n -> ResultPool] : n \in 0..MaxResults}
    /\ rk_query \in QueryPool
    /\ rk_common = <<>>
    /\ rk_sorted = <<>>
    /\ rk_pc = "in"

Rank ==
    /\ rk_pc = "in"
    /\ rk_common' = common_words(rk_results, rk_query)
    /\ rk_sorted' = rank_results(rk_results, rk_query)
    /\ rk_pc' = "ranked"
    /\ UNCHANGED <<rk_results, rk_query>>
    /\ UNCHANGED exceptRank

RankNext == Rank

\* ------------------------------------------------------------------------
\* Title building applied to bounded lists of candidates
\* ------------------------------------------------------------------------
\* Cleaned texts: no whitespace at either end, single spaces inside; the
\* empty text is a candidate when min_words is at most 1.
ChunkPool == {<<>>, <<"a">>, <<"b", "c">>, <<"d", " ", "e">>}

FontSizes == {10, 12}

CandPool == {<<c, z>> : c \in ChunkPool, z \in FontSizes}

TitleIdle ==
    /\ tb_chunks = <<>>
    /\ tb_sizes = <<>>
    /\ tb_max_chars = 0
    /\ tb_title = None
    /\ tb_pc = "idle"

TitleInit ==
    /\ \E cands \in UNION {[1..n -> CandPool] : n \in 0..MaxCands} :
          /\ tb_chunks = [i \in 1..Len(cands) |-> cands[i][1]]
          /\ tb_sizes = [i \in 1..Len(cands) |-> cands[i][2]]
    /\ tb_max_chars \in 0..MaxTitleChars
    /\ tb_title = None
    /\ tb_pc = "in"

\* max() of an empty list raises ValueError, which nothing catches.
TitleRaise ==
    /\ tb_pc = "in"
    /\ tb_sizes = <<>>
    /\ tb_pc' = "raised"
    /\ UNCHANGED <<tb_chunks, tb_sizes, tb_max_chars, tb_title>>
    /\ UNCHANGED exceptTitle

TitleBuild ==
    /\ tb_pc = "in"
    /\ tb_sizes # <<>>
    /\ tb_title' = Some(BuildTitle(tb_chunks, tb_sizes, tb_max_chars))
    /\ tb_pc' = "built"
    /\ UNCHANGED <<tb_chunks, tb_sizes, tb_max_chars>>
    /\ UNCHANGED exceptTitle

TitleNext == TitleRaise \/ TitleBuild

\* ------------------------------------------------------------------------
\* The merge applied to all combinations of absent, empty and set fields
\* ------------------------------------------------------------------------
DeepLearning ==
    <<"D","e","e","p"," ","L","e","a","r","n","i","n","g">>

Other ==
    <<"O","t","h","e","r">>

\* The values a field of a source takes: None, '' or a string that names the
\* source ("T" text, "M" document metadata, "F" file name).
FieldValues(v) == {None, Some(<<>>), Some(v)}

Sources(t, a, x, d) ==
    [title : FieldValues(t), author : FieldValues(a),
     arxiv_id : FieldValues(x), doi : FieldValues(d)]

MergeIdle ==
    /\ mg_filename = EmptyMetadata
    /\ mg_pdf_metadata = EmptyMetadata
    /\ mg_pdf_text = EmptyMetadata
    /\ mg_metadata = EmptyMetadata
    /\ mg_pc = "idle"

MergeInit ==
    /\ mg_filename \in Sources(<<"F">>, <<"F">>, <<"F">>, <<"F">>)
    /\ mg_pdf_metadata \in Sources(Other, <<"M">>, <<"M">>, <<"M">>)
    /\ mg_pdf_text \in Sources(DeepLearning, <<"T">>, <<"T">>, <<"T">>)
    /\ mg_metadata = EmptyMetadata
    /\ mg_pc = "in"

MergeSources ==
    /\ mg_pc = "in"
    /\ mg_metadata' = Merge(mg_filename, mg_pdf_metadata, mg_pdf_text)
    /\ mg_pc' = "merged"
    /\ UNCHANGED <<mg_filename, mg_pdf_metadata, mg_pdf_text>>
    /\ UNCHANGED exceptMerge

MergeNext == MergeSources

\* ------------------------------------------------------------------------
\* get_entry called on one result object
\* ------------------------------------------------------------------------
Vision3D ==
    <<"3","D","-","V","i","s","i","o","n",":"," ","a"," ","s","t","u",
      "d","y">>

SampleDoi ==
    <<"1","0",".","1","0","0","0","/","x","1">>

SampleEntryId ==
    <<"h","t","t","p",":","/","/","a","r","x","i","v",".","o","r","g",
      "/","a","b","s","/","1","7","0","6",".","0","3","7","6","2","v",
      "5">>

CrossrefRawPool ==
    { [title |-> Some(AttentionTitle),
       author |-> << [given |-> <<"A","s","h","i","s","h">>,
                      family |-> <<"V","a","s","w","a","n","i">>],
                     [given |-> <<"N","o","a","m">>,
                      family |-> <<"S","h","a","z","e","e","r">>] >>,
       DOI |-> d] : d \in {None, Some(<<>>), Some(SampleDoi)} }
    \cup
    { [title |-> None, author |-> <<>>, DOI |-> Some(<<>>)],
      [title |-> Some(SurveyTitle),
       author |-> << [given |-> <<>>, family |-> <<"L","e","e">>] >>,
       DOI |-> None],
      [title |-> Some(SurveyTitle),
       author |-> << [given |-> <<"M","a","r","y"," ","A","n","n">>,
                      family |-> <<"L","e","e">>] >>,
       DOI |-> Some(<<>>)],
      [title |-> Some(SurveyTitle),
       author |-> << [given |-> <<"A","n","n">>,
                      family |-> <<"L","e","e">>] >>,
       DOI |-> Some(SampleDoi)],
      [title |-> Some(Vision3D),
       author |-> << [given |-> <<"J","e","a","n","-","L","u","c">>,
                      family |-> <<"O","quote","N","e","i","l">>] >>,
       DOI |-> Some(<<>>)] }

ArxivRawPool ==
    { [title |-> Some(AttentionTitle),
       authors |-> Some(<< <<"A","s","h","i","s","h"," ","V","a","s","w",
                             "a","n","i">>,
                           <<"N","o","a","m"," ","S","h","a","z","e","e",
                             "r">> >>),
       doi |-> d, entry_id |-> SampleEntryId,
       primary_category |-> Some(<<"c","s",".","C","L">>), year |-> 2017]
        : d \in {None, Some(<<>>), Some(SampleDoi)} }
    \cup
    { [title |-> None, authors |-> None, doi |-> None,
       entry_id |-> SampleEntryId, primary_category |-> None,
       year |-> 2017] }

ResultObjects ==
    {[variant |-> "crossref", raw |-> r] : r \in CrossrefRawPool}
    \cup {[variant |-> "arxiv", raw |-> r] : r \in ArxivRawPool}

NoCall == [force_update |-> FALSE, how |-> "none", ret |-> None]

EntryIdle ==
    /\ en_res = [variant |-> "none", raw |-> <<>>]
    /\ en_bibtex = None
    /\ en_net = 0
    /\ en_calls = 0
    /\ en_last = NoCall

\* A result object as its constructor leaves it: _bibtex is None.
EntryInit ==
    /\ en_res \in ResultObjects
    /\ en_bibtex = None
    /\ en_net = 0
    /\ en_calls = 0
    /\ en_last = NoCall

\* CrossrefResult.get_entry(force_update)
CrossrefGetEntry ==
    /\ en_res.variant = "crossref"
    /\ en_calls < MaxCalls
    /\ \E force_update \in BOOLEAN, fetch_ok \in BOOLEAN :
         LET r == GetEntry(en_res, en_bibtex, force_update, fetch_ok,
                           en_net + 1)
         IN /\ en_bibtex' = r.bibtex
            /\ en_net' = en_net + r.net
            /\ en_last' = [force_update |-> force_update, how |-> r.how,
                           ret |-> r.ret]
    /\ en_calls' = en_calls + 1
    /\ UNCHANGED en_res
    /\ UNCHANGED exceptEntry

\* ArxivResult.get_entry(force_update)
ArxivGetEntry ==
    /\ en_res.variant = "arxiv"
    /\ en_calls < MaxCalls
    /\ \E force_update \in BOOLEAN, fetch_ok \in BOOLEAN :
         LET r == GetEntry(en_res, en_bibtex, force_update, fetch_ok,
                           en_net + 1)
         IN /\ en_bibtex' = r.bibtex
            /\ en_net' = en_net + r.net
            /\ en_last' = [force_update |-> force_update, how |-> r.how,
                           ret |-> r.ret]
    /\ en_calls' = en_calls + 1
    /\ UNCHANGED en_res
    /\ UNCHANGED exceptEntry

EntryNext == CrossrefGetEntry \/ ArxivGetEntry

\* ------------------------------------------------------------------------
\* parse_pdf called on one file
\* ------------------------------------------------------------------------
\* A text line whose glyphs all have one size (in tenths of a point); the
\* newline that ends a line is an LTAnno, every other glyph an LTChar.
Line(chars, size) ==
    [i \in 1..Len(chars) |->
        [text |-> chars[i], size |-> size, ltchar |-> chars[i] # "\n"]]

\* The same line with the size of its first glyph replaced (a drop cap).
DropCapLine(chars, first, size) ==
    [Line(chars, size) EXCEPT ![1].size = first]

TextElement(lines) == [isText |-> TRUE, lines |-> lines]

TitleElement ==
    TextElement(<< Line(
                <<"D","e","e","p"," ","L","e","a","r","n","i","n","g",
                  "\n">>, 209) >>)

DropCapElement ==
    TextElement(<< DropCapLine(
                <<"A"," ","S","u","r","v","e","y","\n">>, 480, 120) >>)

ArxivStampElement ==
    TextElement(<< Line(
                <<"a","r","X","i","v",":","1","7","0","6",".","0","3",
                  "7","6","2","v","5"," ","[","c","s",".","C","L","]",
                  "\n">>, 200) >>)

DoiElement ==
    TextElement(<< Line(
                <<"d","o","i",":","1","0",".","1","0","0","0","/","x",
                  "1","\n">>, 90) >>)

OneWordElement ==
    TextElement(<< Line(
                <<"A","b","s","t","r","a","c","t","\n">>, 120) >>)

ParagraphElement ==
    TextElement(<< Line(<<"a", " ", "b", "\n">>, 100),
                   Line(<<"c", " ", "d", "\n">>, 100),
                   Line(<<"e", " ", "f", "\n">>, 100) >>)

\* An element whose first line holds no character glyph.
BlankFirstLineElement ==
    TextElement(<< Line(<<"\n">>, 0),
                   Line(<<"B", "i", "g", " ", "T", "\n">>, 240) >>)

FigureElement == [isText |-> FALSE, lines |-> <<>>]

\* An old-style arXiv identifier and a second DOI.
OldArxivDoiElement ==
    TextElement(<< Line(
                <<"a","r","X","i","v",":","h","e","p","-","t","h","/",
                  "9","9","0","1","0","0","1"," ","d","o","i",":","1",
                  "0",".","2","0","0","0","/","y","2","\n">>, 90) >>)

\* An identifier on the second line of the element.
SecondLineIdElement ==
    TextElement(<< Line(<<"P", "r", "e", "\n">>, 100),
                   Line(
                        <<"a","r","X","i","v",":","1","7","0","6",".",
                          "0","3","7","6","2","\n">>, 100) >>)

\* A drop cap that is a line of its own.
DropCapOwnLineElement ==
    TextElement(<< Line(<<"A", "\n">>, 480),
                   Line(<<"S", "u", "r", "v", "e", "y", "\n">>, 120) >>)

ElementPool ==
    {TitleElement, DropCapElement, ArxivStampElement, DoiElement,
     OneWordElement, ParagraphElement, BlankFirstLineElement, FigureElement,
     OldArxivDoiElement, SecondLineIdElement, DropCapOwnLineElement}

ArxivUrl ==
    <<"h","t","t","p","s",":","/","/","a","r","x","i","v",".","o","r",
      "g","/","a","b","s","/","1","7","0","6",".","0","3","7","6","2",
      "v","5">>

OtherUrl ==
    <<"h","t","t","p",":","/","/","x",".","o","r","g","/","a">>

\* What an annotation of the first page makes of line 164: a URI that is
\* bytes, no URI, a URI without a decode method, or an exception raised by
\* resolve() or get().
AnnotPool ==
    { [kind |-> "uri", uri |-> ArxivUrl],
      [kind |-> "uri", uri |-> OtherUrl],
      [kind |-> "no_uri", uri |-> <<>>],
      [kind |-> "uri_not_bytes", uri |-> <<>>],
      [kind |-> "TypeError", uri |-> <<>>],
      [kind |-> "AttributeError", uri |-> <<>>] }

Bytes(t) == [bytes |-> TRUE, text |-> t]

NotBytes == [bytes |-> FALSE, text |-> <<>>]

\* doc.info: no information dictionary at all (an empty list), or the
\* first dictionary.
InfoPool ==
    { [present |-> FALSE, dict |-> <<>>],
      [present |-> TRUE, dict |-> <<>>],
      [present |-> TRUE,
       dict |-> << <<"Title", Bytes(Other)>>,
                   <<"Author", Bytes(AnnLee)>> >>],
      [present |-> TRUE,
       dict |-> << <<"Title", Bytes(<<>>)>>,
                   <<"Author", NotBytes>>,
                   <<"Subject", Bytes(
                    <<"a","r","X","i","v",":","1","7","0","6",".","0",
                      "3","7","6","2"," ","d","o","i",":","1","0",".",
                      "1","0","0","0","/","x","1">>)>> >>],
      [present |-> TRUE,
       dict |-> << <<"Keywords", Bytes(
                    <<"a","r","X","i","v",":","h","e","p","-","t","h",
                      "/","9","9","0","1","0","0","1">>)>> >>],
      [present |-> TRUE,
       dict |-> << <<"Subject", Bytes(
                    <<"a","r","X","i","v",":","h","e","p","-","t","h",
                      "/","9","9","0","1","0","0","1"," ","d","o","i",
                      ":","1","0",".","2","0","0","0","/","y","2">>)>>,
                   <<"Keywords", Bytes(
                    <<"a","r","X","i","v",":","1","7","0","6",".","0",
                      "3","7","6","2"," ","d","o","i",":","1","0",".",
                      "1","0","0","0","/","x","1">>)>> >>] }

StemPool ==
    { <<"p", "a", "p", "e", "r">>,
      <<"1","7","0","6",".","0","3","7","6","2","v","5">> }

\* The defaults of cli, and limits that the sample elements reach.
LimitsPool ==
    { [max_lines |-> 4, min_words |-> 2, max_words |-> 30, max_chars |-> 200],
      [max_lines |-> 2, min_words |-> 1, max_words |-> 3, max_chars |-> 14] }

ParseIdle ==
    /\ pp_pc = "idle"
    /\ pp_stem = <<>>
    /\ pp_limits = [max_lines |-> 0, min_words |-> 0, max_words |-> 0,
                    max_chars |-> 0]
    /\ pp_exc = "none"
    /\ filename = EmptyMetadata
    /\ m_metadata = EmptyMetadata
    /\ m_annots = 0
    /\ m_annot = None
    /\ m_info = None
    /\ m_syn = "none"
    /\ m_outcome = "pending"
    /\ pdf_metadata = EmptyMetadata
    /\ t_metadata = EmptyMetadata
    /\ text_chunks = <<>>
    /\ text_sizes = <<>>
    /\ char_size = None
    /\ t_scanned = 0
    /\ t_element = None
    /\ t_syn = FALSE
    /\ t_outcome = "pending"
    /\ pdf_text = EmptyMetadata
    /\ metadata = EmptyMetadata

ParseInit ==
    /\ pp_pc = "start"
    /\ pp_stem \in StemPool
    /\ pp_limits \in LimitsPool
    /\ pp_exc = "none"
    /\ filename = EmptyMetadata
    /\ m_metadata = EmptyMetadata
    /\ m_annots = 0
    /\ m_annot = None
    /\ m_info = None
    /\ m_syn = "none"
    /\ m_outcome = "pending"
    /\ pdf_metadata = EmptyMetadata
    /\ t_metadata = EmptyMetadata
    /\ text_chunks = <<>>
    /\ text_sizes = <<>>
    /\ char_size = None
    /\ t_scanned = 0
    /\ t_element = None
    /\ t_syn = FALSE
    /\ t_outcome = "pending"
    /\ pdf_text = EmptyMetadata
    /\ metadata = EmptyMetadata

metaLocals ==
    <<m_metadata, m_annots, m_annot, m_info, m_syn, m_outcome, pdf_metadata>>

textLocals ==
    <<t_metadata, text_chunks, text_sizes, char_size, t_scanned, t_element,
      t_syn, t_outcome, pdf_text>>

\* Line 75.
ParseFilenameStep ==
    /\ pp_pc = "start"
    /\ filename' = ParseFilename(pp_stem)
    /\ pp_pc' = "meta_open"
    /\ UNCHANGED <<pp_stem, pp_limits, pp_exc, metadata>>
    /\ UNCHANGED <<metaLocals, textLocals>>
    /\ UNCHANGED exceptParse

\* Lines 153-156: PDFDocument(parser) succeeds.
MetaOpen ==
    /\ pp_pc = "meta_open"
    /\ pp_pc' = "meta_page"
    /\ UNCHANGED <<pp_stem, pp_limits, pp_exc, filename, metadata>>
    /\ UNCHANGED <<metaLocals, textLocals>>
    /\ UNCHANGED exceptParse

\* Lines 157-158: PDFDocument(parser) signals a PDFSyntaxError.
MetaOpenSyntaxError ==
    /\ pp_pc = "meta_open"
    /\ m_syn' = "open"
    /\ pdf_metadata' = OnPDFSyntaxError(m_metadata)
    /\ m_outcome' = "returned"
    /\ pp_pc' = "text_scan"
    /\ UNCHANGED <<pp_stem, pp_limits, pp_exc, filename, metadata>>
    /\ UNCHANGED <<m_metadata, m_annots, m_annot, m_info, textLocals>>
    /\ UNCHANGED exceptParse

\* Lines 160-163: the first page and its annots: None or empty, a list, or
\* a reference that cannot be iterated (TypeError, caught at line 177).
MetaFirstPage ==
    /\ pp_pc = "meta_page"
    /\ \E annots \in {"none", "list", "not_iterable"} :
         pp_pc' = IF annots = "list" THEN "meta_annots" ELSE "meta_info"
    /\ UNCHANGED <<pp_stem, pp_limits, pp_exc, filename, metadata>>
    /\ UNCHANGED <<metaLocals, textLocals>>
    /\ UNCHANGED exceptParse

\* A PDFSyntaxError signalled by the library behind line 156, while the
\* first page is made or an annotation resolved: no handler is around it.
MetaLateSyntaxError ==
    /\ pp_pc \in {"meta_page", "meta_annots"}
    /\ m_syn' = IF pp_pc = "meta_page" THEN "page" ELSE "annots"
    /\ m_outcome' = "raised"
    /\ pp_exc' = "PDFSyntaxError"
    /\ pp_pc' = "raised"
    /\ UNCHANGED <<pp_stem, pp_limits, filename, metadata>>
    /\ UNCHANGED <<m_metadata, m_annots, m_annot, m_info, pdf_metadata,
                   textLocals>>
    /\ UNCHANGED exceptParse

\* Lines 163-178: one round of the loop over the annotations.
MetaAnnotation ==
    /\ pp_pc = "meta_annots"
    /\ m_annots < MaxAnnots
    /\ \E a \in AnnotPool :
         /\ m_annot' = Some(a)
         /\ m_metadata' = IF a.kind = "uri"
                          THEN AnnotationUrl(m_metadata, a.uri)
                          ELSE m_metadata
         /\ pp_pc' = IF a.kind = "TypeError" THEN "meta_info"
                     ELSE IF a.kind = "AttributeError" THEN "raised"
                     ELSE "meta_annots"
         /\ pp_exc' = IF a.kind = "AttributeError" THEN "AttributeError"
                      ELSE pp_exc
         /\ m_outcome' = IF a.kind = "AttributeError" THEN "raised"
                         ELSE m_outcome
    /\ m_annots' = m_annots + 1
    /\ UNCHANGED <<pp_stem, pp_limits, filename, metadata>>
    /\ UNCHANGED <<m_info, m_syn, pdf_metadata, textLocals>>
    /\ UNCHANGED exceptParse

\* The loop over the annotations ends.
MetaAnnotsEnd ==
    /\ pp_pc = "meta_annots"
    /\ pp_pc' = "meta_info"
    /\ UNCHANGED <<pp_stem, pp_limits, pp_exc, filename, metadata>>
    /\ UNCHANGED <<metaLocals, textLocals>>
    /\ UNCHANGED exceptParse

\* Lines 179-216.  doc.info[0] of an empty doc.info raises IndexError, which
\* no handler catches.
MetaInfo ==
    /\ pp_pc = "meta_info"
    /\ \E info \in InfoPool :
         /\ m_info' = Some(info)
         /\ IF info.present
            THEN /\ m_metadata' = ParseInfo(m_metadata, info.dict)
                 /\ pp_pc' = "meta_return"
                 /\ UNCHANGED <<m_outcome, pp_exc>>
            ELSE /\ m_outcome' = "raised"
                 /\ pp_exc' = "IndexError"
                 /\ pp_pc' = "raised"
                 /\ UNCHANGED m_metadata
    /\ UNCHANGED <<pp_stem, pp_limits, filename, metadata>>
    /\ UNCHANGED <<m_annots, m_annot, m_syn, pdf_metadata, textLocals>>
    /\ UNCHANGED exceptParse

\* Line 217: return metadata.  The locals of _parse_pdf_metadata end with
\* the call.
MetaReturn ==
    /\ pp_pc = "meta_return"
    /\ pdf_metadata' = m_metadata
    /\ m_outcome' = "returned"
    /\ m_metadata' = EmptyMetadata
    /\ m_annots' = 0
    /\ m_annot' = None
    /\ m_info' = None
    /\ pp_pc' = "text_scan"
    /\ UNCHANGED <<pp_stem, pp_limits, pp_exc, filename, metadata>>
    /\ UNCHANGED <<m_syn, textLocals>>
    /\ UNCHANGED exceptParse

\* Lines 255-309: one round of the loop over the elements of the pages.
\* text_sizes.append(char_size) with char_size unbound raises
\* UnboundLocalError, which no handler catches; the chunk was appended the
\* line before.
TextScan ==
    /\ pp_pc = "text_scan"
    /\ t_scanned < MaxContainers
    /\ \E element \in ElementPool :
         LET text == get_text(element)
             cs == CharSize(element, char_size)
         IN /\ t_element' = Some(element)
            /\ IF ~element.isText
               THEN UNCHANGED <<t_metadata, text_chunks, text_sizes,
                                char_size, t_outcome, pp_pc, pp_exc>>
               ELSE /\ t_metadata' = TextIdentifiers(t_metadata, text)
                    /\ IF ~Accepted(text, pp_limits)
                       THEN UNCHANGED <<text_chunks, text_sizes, char_size,
                                        t_outcome, pp_pc, pp_exc>>
                       ELSE IF cs = None
                       THEN /\ text_chunks' =
                                 Append(text_chunks, TextStripped(text))
                            /\ t_outcome' = "raised"
                            /\ pp_exc' = "UnboundLocalError"
                            /\ pp_pc' = "raised"
                            /\ UNCHANGED <<text_sizes, char_size>>
                       ELSE /\ text_chunks' =
                                 Append(text_chunks, TextStripped(text))
                            /\ text_sizes' = Append(text_sizes, cs[1])
                            /\ char_size' = cs
                            /\ UNCHANGED <<t_outcome, pp_pc, pp_exc>>
    /\ t_scanned' = t_scanned + 1
    /\ UNCHANGED <<pp_stem, pp_limits, filename, metadata>>
    /\ UNCHANGED <<metaLocals, t_syn, pdf_text>>
    /\ UNCHANGED exceptParse

\* Lines 310-319 and 322: the pages are exhausted.  max() of an empty list
\* raises ValueError, which no handler catches.
TextEnd ==
    /\ pp_pc = "text_scan"
    /\ IF text_sizes = <<>>
       THEN /\ t_outcome' = "raised"
            /\ pp_exc' = "ValueError"
            /\ pp_pc' = "raised"
            /\ UNCHANGED <<t_metadata, pdf_text>>
       ELSE LET title == BuildTitle(text_chunks, text_sizes,
                                    pp_limits.max_chars)
                m == IF t_metadata.title = None
                     THEN [t_metadata EXCEPT !.title = Some(title)]
                     ELSE t_metadata
            IN /\ t_metadata' = m
               /\ pdf_text' = m
               /\ t_outcome' = "returned"
               /\ pp_pc' = "merge"
               /\ UNCHANGED pp_exc
    /\ UNCHANGED <<pp_stem, pp_limits, filename, metadata>>
    /\ UNCHANGED <<metaLocals, text_chunks, text_sizes, char_size, t_scanned,
                   t_element, t_syn>>
    /\ UNCHANGED exceptParse

\* Lines 320-321: the library signals a PDFSyntaxError when the pages are
\* opened or while they are walked.
TextSyntaxError ==
    /\ pp_pc = "text_scan"
    /\ t_syn' = TRUE
    /\ pdf_text' = OnPDFSyntaxError(t_metadata)
    /\ t_outcome' = "returned"
    /\ pp_pc' = "merge"
    /\ UNCHANGED <<pp_stem, pp_limits, pp_exc, filename, metadata>>
    /\ UNCHANGED <<metaLocals, t_metadata, text_chunks, text_sizes,
                   char_size, t_scanned, t_element>>
    /\ UNCHANGED exceptParse

\* Lines 85-114.
MergeParsed ==
    /\ pp_pc = "merge"
    /\ metadata' = Merge(filename, pdf_metadata, pdf_text)
    /\ pp_pc' = "done"
    /\ UNCHANGED <<pp_stem, pp_limits, pp_exc, filename>>
    /\ UNCHANGED <<metaLocals, textLocals>>
    /\ UNCHANGED exceptParse

ParseNext ==
    \/ ParseFilenameStep
    \/ MetaOpen
    \/ MetaOpenSyntaxError
    \/ MetaFirstPage
    \/ MetaLateSyntaxError
    \/ MetaAnnotation
    \/ MetaAnnotsEnd
    \/ MetaInfo
    \/ MetaReturn
    \/ TextScan
    \/ TextEnd
    \/ TextSyntaxError
    \/ MergeParsed

\* ------------------------------------------------------------------------
\* pdflu.py: lookup, _query_file, _query_string
\* ------------------------------------------------------------------------
SampleArxivId ==
    <<"1", "7", "0", "6", ".", "0", "3", "7", "6", "2">>

\* What parse_pdf may hand to _query_file.
LookupMetadataPool ==
    { EmptyMetadata,
      [title |-> Some(SurveyTitle), author |-> Some(AnnLee),
       arxiv_id |-> None, doi |-> None],
      [title |-> Some(Other), author |-> None,
       arxiv_id |-> Some(SampleArxivId), doi |-> Some(SampleDoi)],
      [title |-> None, author |-> None,
       arxiv_id |-> Some(SampleArxivId), doi |-> None] }

CrossrefItems ==
    { [variant |-> "crossref", title |-> Other, author |-> AnnLee],
      [variant |-> "crossref", title |-> SurveyTitle, author |-> AnnLee] }

ArxivItems ==
    { [variant |-> "arxiv", title |-> SurveyTitle, author |-> <<>>] }

\* The lists of at most limit results a provider answers.
Answers(items) == UNION {[1..n -> items] : n \in 0..Limit}

LookupIdle ==
    /\ lk_pc = "idle"
    /\ lk_query = None
    /\ lk_interactive = FALSE
    /\ lk_metadata = EmptyMetadata
    /\ qs_query = None
    /\ entries_crossref = <<>>
    /\ entries_arxiv = <<>>
    /\ entries = <<>>
    /\ lk_calls = <<>>
    /\ lk_failed = {}
    /\ sel_str = None
    /\ sel = None
    /\ selected_entry = None
    /\ lk_exit = "running"
    /\ lk_exc = "none"
    /\ lk_out = <<>>

\* The command line and the Metadata of the file.
LookupInit ==
    /\ lk_pc = "start"
    /\ lk_query \in {None, Some(SurveyQuery)}
    /\ lk_interactive \in BOOLEAN
    /\ lk_metadata \in LookupMetadataPool
    /\ qs_query = None
    /\ entries_crossref = <<>>
    /\ entries_arxiv = <<>>
    /\ entries = <<>>
    /\ lk_calls = <<>>
    /\ lk_failed = {}
    /\ sel_str = None
    /\ sel = None
    /\ selected_entry = None
    /\ lk_exit = "running"
    /\ lk_exc = "none"
    /\ lk_out = <<>>

lkInputs == <<lk_query, lk_interactive, lk_metadata>>

lkProviders == <<entries_crossref, entries_arxiv, lk_calls, lk_failed>>

lkSelection == <<sel_str, sel, selected_entry>>

lkEnd == <<lk_exit, lk_exc>>

\* Lines 91-96: if query: entries = _query_string(query, ...)
LookupQuery ==
    /\ lk_pc = "start"
    /\ Truthy(lk_query)
    /\ qs_query' = lk_query
    /\ lk_pc' = "qs_crossref"
    /\ UNCHANGED <<lkInputs, lkProviders, entries, lkSelection, lkEnd, lk_out>>
    /\ UNCHANGED exceptLookup

\* Lines 97-112: the file is parsed; with --interactive the Metadata is
\* printed.
LookupFile ==
    /\ lk_pc = "start"
    /\ ~Truthy(lk_query)
    /\ lk_out' = IF lk_interactive THEN Append(lk_out, "Metadata") ELSE lk_out
    /\ lk_pc' = "query_file"
    /\ UNCHANGED <<lkInputs, qs_query, lkProviders, entries, lkSelection,
                   lkEnd>>
    /\ UNCHANGED exceptLookup

\* _query_file, lines 167-168: if not metadata: return []
QueryFileEmpty ==
    /\ lk_pc = "query_file"
    /\ ~MetadataBool(lk_metadata)
    /\ entries' = <<>>
    /\ lk_pc' = "select"
    /\ UNCHANGED <<lkInputs, qs_query, lkProviders, lkSelection, lkEnd,
                   lk_out>>
    /\ UNCHANGED exceptLookup

\* A mutant: the answer of an identifier lookup is never returned.
ReturnsEntries_never(answer) == FALSE

\* _query_file, lines 173-174 and 178-179: if entries: return entries
ReturnsEntries(answer) == answer # <<>>

\* _query_file, lines 171-174, with query_crossref_doi (search.py lines
\* 214-225): works(ids=doi, warn=True) answers None for a DOI it does not
\* find, the record of the DOI, or raises when the service cannot be reached.
QueryFileDoi ==
    /\ lk_pc = "query_file"
    /\ MetadataBool(lk_metadata)
    /\ IF ~Truthy(lk_metadata.doi)
       THEN /\ lk_pc' = "qf_arxiv"
            /\ UNCHANGED <<entries, lk_calls, lk_failed, lkEnd>>
       ELSE /\ lk_calls' = Append(lk_calls, "crossref_doi")
            /\ \E kind \in {"none", "error", "found"},
                  answer \in CrossrefItems :
                 IF kind = "error"
                 THEN /\ lk_failed' = lk_failed \cup {"crossref_doi"}
                      /\ lk_exit' = "error"
                      /\ lk_exc' = "RequestException"
                      /\ lk_pc' = "raised"
                      /\ UNCHANGED entries
                 ELSE /\ entries' = IF kind = "none" THEN <<>> ELSE <<answer>>
                      /\ lk_pc' = IF ReturnsEntries(entries')
                                  THEN "select" ELSE "qf_arxiv"
                      /\ UNCHANGED <<lk_failed, lkEnd>>
    /\ UNCHANGED <<lkInputs, qs_query, entries_crossref, entries_arxiv,
                   lkSelection, lk_out>>
    /\ UNCHANGED exceptLookup

\* _query_file, lines 176-179, with query_arxiv_id (search.py lines
\* 244-254): an ArxivError is caught and gives the empty list.
QueryFileArxivId ==
    /\ lk_pc = "qf_arxiv"
    /\ IF ~Truthy(lk_metadata.arxiv_id)
       THEN /\ lk_pc' = "qf_text"
            /\ UNCHANGED <<entries, lk_calls, lk_failed>>
       ELSE /\ lk_calls' = Append(lk_calls, "arxiv_id")
            /\ \E kind \in {"none", "ArxivError", "found"},
                  answer \in ArxivItems :
                 /\ lk_failed' = IF kind = "ArxivError"
                                 THEN lk_failed \cup {"arxiv_id"}
                                 ELSE lk_failed
                 /\ entries' = IF kind = "found" THEN <<answer>> ELSE <<>>
                 /\ lk_pc' = IF ReturnsEntries(entries')
                             THEN "select" ELSE "qf_text"
    /\ UNCHANGED <<lkInputs, qs_query, entries_crossref, entries_arxiv,
                   lkSelection, lkEnd, lk_out>>
    /\ UNCHANGED exceptLookup

\* _query_file, lines 181-185: the text query.
QueryFileText ==
    /\ lk_pc = "qf_text"
    /\ qs_query' = Some(clean_string_for_query(lk_metadata.title)
                        \o clean_string_for_query(lk_metadata.author))
    /\ lk_pc' = "qs_crossref"
    /\ UNCHANGED <<lkInputs, lkProviders, entries, lkSelection, lkEnd, lk_out>>
    /\ UNCHANGED exceptLookup

\* _query_string, line 196, with query_crossref (search.py lines 199-211):
\* no handler is around crossref.works, so an error of the network or of
\* the service leaves query_crossref, _query_string and lookup.
QueryCrossref ==
    /\ lk_pc = "qs_crossref"
    /\ lk_calls' = Append(lk_calls, "crossref")
    /\ \E kind \in {"error", "list"}, answer \in Answers(CrossrefItems) :
         IF kind = "error"
         THEN /\ lk_failed' = lk_failed \cup {"crossref"}
              /\ lk_exit' = "error"
              /\ lk_exc' = "RequestException"
              /\ lk_pc' = "raised"
              /\ UNCHANGED entries_crossref
         ELSE /\ entries_crossref' = answer
              /\ lk_pc' = "qs_arxiv"
              /\ UNCHANGED <<lk_failed, lkEnd>>
    /\ UNCHANGED <<lkInputs, qs_query, entries_arxiv, entries, lkSelection,
                   lk_out>>
    /\ UNCHANGED exceptLookup

\* _query_string, line 197, with query_arxiv (search.py lines 228-241): an
\* ArxivError is caught and gives the empty list.
QueryArxiv ==
    /\ lk_pc = "qs_arxiv"
    /\ lk_calls' = Append(lk_calls, "arxiv")
    /\ \E kind \in {"ArxivError", "list"}, answer \in Answers(ArxivItems) :
         IF kind = "ArxivError"
         THEN /\ lk_failed' = lk_failed \cup {"arxiv"}
              /\ entries_arxiv' = <<>>
         ELSE /\ entries_arxiv' = answer
              /\ UNCHANGED lk_failed
    /\ lk_pc' = "qs_rank"
    /\ UNCHANGED <<lkInputs, qs_query, entries_crossref, entries, lkSelection,
                   lkEnd, lk_out>>
    /\ UNCHANGED exceptLookup

\* _query_string, lines 198-200.  Called for --query, its result is the
\* last thing lookup computes: everything that follows in lookup belongs to
\* the else branch.
QueryRank ==
    /\ lk_pc = "qs_rank"
    /\ LET all == entries_crossref \o entries_arxiv
           ranked == rank_results(all, qs_query[1])
       IN entries' = [i \in 1..Len(ranked) |-> all[ranked[i]]]
    /\ IF Truthy(lk_query)
       THEN /\ lk_pc' = "done"
            /\ lk_exit' = "ok"
            /\ UNCHANGED lk_exc
       ELSE /\ lk_pc' = "select"
            /\ UNCHANGED lkEnd
    /\ UNCHANGED <<lkInputs, qs_query, lkProviders, lkSelection, lk_out>>
    /\ UNCHANGED exceptLookup

\* int(sel_str) of line 131: an optional sign and decimal digits; anything
\* else raises ValueError.
IsIntLiteral(str) ==
    LET body == IF str # <<>> /\ str[1] \in {"-", "+"} THEN Tail(str) ELSE str
    IN body # <<>> /\ \A i \in 1..Len(body) : body[i] \in SeqToSet(digits)

DigitValue(ch) == CHOOSE d \in 0..9 : digits[d + 1] = ch

RECURSIVE DecimalValue(_)
DecimalValue(body) ==
    IF body = <<>> THEN 0
    ELSE 10 * DecimalValue(SubSeq(body, 1, Len(body) - 1))
         + DigitValue(body[Len(body)])

IntValue(str) ==
    IF str[1] = "-" THEN 0 - DecimalValue(Tail(str))
    ELSE IF str[1] = "+" THEN DecimalValue(Tail(str))
    ELSE DecimalValue(str)

\* What the user may type at the prompt.
SelStrPool ==
    { <<"q">>, <<"0">>, <<"1">>, <<"2">>, <<"7">>, <<"-", "1">>,
      <<"-", "7">>, <<"a", "b", "c">> }

\* Lines 133-136: the place (from 0) in entries that lookup takes.
PickedIndex(n, s, interactive) ==
    IF n > 1 /\ s < n /\ interactive THEN s ELSE 0

\* entries[k] of a list of n: a negative k counts from the end, a k outside
\* -n .. n-1 raises IndexError (None).
ListIndex(n, k) ==
    IF 0 <= k /\ k < n THEN Some(k)
    ELSE IF k < 0 /\ 0 - n <= k THEN Some(n + k)
    ELSE None

\* Lines 118-131: sel = 0; with --interactive the results are listed and the
\* selection is read once.
Select ==
    /\ lk_pc = "select"
    /\ IF ~lk_interactive
       THEN /\ sel' = Some(0)
            /\ lk_pc' = "pick"
            /\ UNCHANGED <<sel_str, lkEnd, lk_out>>
       ELSE /\ lk_out' = Append(lk_out, "Results")
            /\ \E typed \in SelStrPool :
                 /\ sel_str' = Some(typed)
                 /\ IF typed = <<"q">>
                    THEN /\ sel' = Some(0)
                         /\ lk_exit' = "ok"
                         /\ lk_pc' = "done"
                         /\ UNCHANGED lk_exc
                    ELSE IF ~IsIntLiteral(typed)
                    THEN /\ sel' = Some(0)
                         /\ lk_exit' = "error"
                         /\ lk_exc' = "ValueError"
                         /\ lk_pc' = "raised"
                    ELSE /\ sel' = Some(IntValue(typed))
                         /\ lk_pc' = "pick"
                         /\ UNCHANGED lkEnd
    /\ UNCHANGED <<lkInputs, qs_query, lkProviders, entries, selected_entry>>
    /\ UNCHANGED exceptLookup

\* Lines 132-136: the entry is taken and resolved with get_entry(), which
\* may raise when it fetches.  Without entries, selected_entry stays
\* unbound.
Pick ==
    /\ lk_pc = "pick"
    /\ IF entries = <<>>
       THEN /\ lk_pc' = "format"
            /\ UNCHANGED <<selected_entry, lkEnd>>
       ELSE LET k == ListIndex(Len(entries),
                               PickedIndex(Len(entries), sel[1],
                                           lk_interactive))
            IN IF k = None
               THEN /\ lk_exit' = "error"
                    /\ lk_exc' = "IndexError"
                    /\ lk_pc' = "raised"
                    /\ UNCHANGED selected_entry
               ELSE \E fetch_ok \in BOOLEAN :
                      IF fetch_ok
                      THEN /\ selected_entry' = k
                           /\ lk_pc' = "format"
                           /\ UNCHANGED lkEnd
                      ELSE /\ lk_exit' = "error"
                           /\ lk_exc' = "RequestException"
                           /\ lk_pc' = "raised"
                           /\ UNCHANGED selected_entry
    /\ UNCHANGED <<lkInputs, qs_query, lkProviders, entries, sel_str, sel,
                   lk_out>>
    /\ UNCHANGED exceptLookup

\* Lines 137-155: db.add(selected_entry) and the entry printed under the
\* heading BibTeX.  Reading selected_entry while it is unbound raises
\* UnboundLocalError.
Format ==
    /\ lk_pc = "format"
    /\ IF selected_entry = None
       THEN /\ lk_exit' = "error"
            /\ lk_exc' = "UnboundLocalError"
            /\ lk_pc' = "raised"
            /\ UNCHANGED lk_out
       ELSE /\ lk_out' = Append(lk_out, "BibTeX")
            /\ lk_exit' = "ok"
            /\ lk_pc' = "done"
            /\ UNCHANGED lk_exc
    /\ UNCHANGED <<lkInputs, qs_query, lkProviders, entries, lkSelection>>
    /\ UNCHANGED exceptLookup

LookupNext ==
    \/ LookupQuery
    \/ LookupFile
    \/ QueryFileEmpty
    \/ QueryFileDoi
    \/ QueryFileArxivId
    \/ QueryFileText
    \/ QueryCrossref
    \/ QueryArxiv
    \/ QueryRank
    \/ Select
    \/ Pick
    \/ Format

\* ------------------------------------------------------------------------
\* Specifications
\* ------------------------------------------------------------------------
InitClean ==
    CleanInit /\ RankIdle /\ TitleIdle /\ MergeIdle /\ EntryIdle /\ ParseIdle
    /\ LookupIdle

SpecClean == InitClean /\ [][CleanNext]_vars

InitRank ==
    RankInit /\ CleanIdle /\ TitleIdle /\ MergeIdle /\ EntryIdle /\ ParseIdle
    /\ LookupIdle

SpecRank == InitRank /\ [][RankNext]_vars

InitTitle ==
    TitleInit /\ CleanIdle /\ RankIdle /\ MergeIdle /\ EntryIdle /\ ParseIdle
    /\ LookupIdle

SpecTitle == InitTitle /\ [][TitleNext]_vars

InitMerge ==
    MergeInit /\ CleanIdle /\ RankIdle /\ TitleIdle /\ EntryIdle /\ ParseIdle
    /\ LookupIdle

SpecMerge == InitMerge /\ [][MergeNext]_vars

InitEntry ==
    EntryInit /\ CleanIdle /\ RankIdle /\ TitleIdle /\ MergeIdle /\ ParseIdle
    /\ LookupIdle

SpecEntry == InitEntry /\ [][EntryNext]_vars

InitParse ==
    ParseInit /\ CleanIdle /\ RankIdle /\ TitleIdle /\ MergeIdle /\ EntryIdle
    /\ LookupIdle

SpecParse == InitParse /\ [][ParseNext]_vars

InitLookup ==
    LookupInit /\ CleanIdle /\ RankIdle /\ TitleIdle /\ MergeIdle /\ EntryIdle
    /\ ParseIdle

SpecLookup == InitLookup /\ [][LookupNext]_vars

\* C1: for every list of recorded candidates and every max_chars >= 0, the
\* title that title building produces is at most max_chars long.
C1_TitleWithinMaxChars ==
    tb_pc = "built" => Len(tb_title[1]) <= tb_max_chars

\* A title built from three candidates of the threshold size of which the
\* second did not fit and the third did.
C1_Witness ==
    /\ tb_pc = "built"
    /\ Len(tb_chunks) = 3
    /\ tb_sizes = <<12, 12, 12>>
    /\ tb_chunks[1] = <<"b", "c">>
    /\ tb_chunks[2] = <<"d", " ", "e">>
    /\ tb_chunks[3] = <<"a">>
    /\ tb_max_chars = 5
    /\ tb_title = Some(<<"b", "c", " ", "a">>)

\* C2: the merged title is the text title when that is non-empty, else the
\* document-metadata title when that is non-empty, else the file-name title;
\* text "Deep Learning" and metadata "Other" give "Deep Learning".
C2_TitlePriority ==
    mg_pc = "merged" =>
      /\ Truthy(mg_pdf_text.title) => mg_metadata.title = mg_pdf_text.title
      /\ (~Truthy(mg_pdf_text.title) /\ Truthy(mg_pdf_metadata.title))
           => mg_metadata.title = mg_pdf_metadata.title
      /\ (/\ ~Truthy(mg_pdf_text.title)
          /\ ~Truthy(mg_pdf_metadata.title)
          /\ Truthy(mg_filename.title))
           => mg_metadata.title = mg_filename.title
      /\ (/\ mg_pdf_text.title = Some(DeepLearning)
          /\ mg_pdf_metadata.title = Some(Other))
           => mg_metadata.title = Some(DeepLearning)

C2_Witness ==
    /\ mg_pc = "merged"
    /\ mg_pdf_text.title = Some(DeepLearning)
    /\ mg_pdf_metadata.title = Some(Other)
    /\ Truthy(mg_filename.title)
    /\ mg_metadata.title = Some(DeepLearning)

\* C3: the merged arxiv_id is the first non-empty one of text, file name,
\* document metadata, in that order.
C3_ArxivIdPriority ==
    mg_pc = "merged" =>
      /\ Truthy(mg_pdf_text.arxiv_id)
           => mg_metadata.arxiv_id = mg_pdf_text.arxiv_id
      /\ (~Truthy(mg_pdf_text.arxiv_id) /\ Truthy(mg_filename.arxiv_id))
           => mg_metadata.arxiv_id = mg_filename.arxiv_id
      /\ (/\ ~Truthy(mg_pdf_text.arxiv_id)
          /\ ~Truthy(mg_filename.arxiv_id)
          /\ Truthy(mg_pdf_metadata.arxiv_id))
           => mg_metadata.arxiv_id = mg_pdf_metadata.arxiv_id

\* The file name and the document metadata both give an arXiv ID, the text
\* none: the file name's is taken.
C3_Witness ==
    /\ mg_pc = "merged"
    /\ ~Truthy(mg_pdf_text.arxiv_id)
    /\ mg_filename.arxiv_id = Some(<<"F">>)
    /\ mg_pdf_metadata.arxiv_id = Some(<<"M">>)
    /\ mg_metadata.arxiv_id = Some(<<"F">>)

\* C4: each of doi and author is merged as the first non-empty one of
\* document metadata, text, file name, and is absent only when all three
\* sources have it empty.
C4_DoiAuthorPriority ==
    mg_pc = "merged" =>
      \A pick \in {"doi", "author"} :
        LET m == IF pick = "doi" THEN mg_pdf_metadata.doi
                 ELSE mg_pdf_metadata.author
            t == IF pick = "doi" THEN mg_pdf_text.doi ELSE mg_pdf_text.author
            f == IF pick = "doi" THEN mg_filename.doi ELSE mg_filename.author
            r == IF pick = "doi" THEN mg_metadata.doi ELSE mg_metadata.author
        IN /\ Truthy(m) => r = m
           /\ (~Truthy(m) /\ Truthy(t)) => r = t
           /\ (~Truthy(m) /\ ~Truthy(t) /\ Truthy(f)) => r = f
           /\ (r = None) <=> (~Truthy(m) /\ ~Truthy(t) /\ ~Truthy(f))

\* Text and document metadata both give a DOI and the metadata's is taken;
\* the author is empty in all three sources and stays absent.
C4_Witness ==
    /\ mg_pc = "merged"
    /\ mg_pdf_text.doi = Some(<<"T">>)
    /\ mg_pdf_metadata.doi = Some(<<"M">>)
    /\ mg_metadata.doi = Some(<<"M">>)
    /\ mg_pdf_metadata.author = Some(<<>>)
    /\ mg_pdf_text.author = None
    /\ mg_filename.author = Some(<<>>)
    /\ mg_metadata.author = None

\* C5: rank_results returns the stable descending sort of its input by
\* score: a permutation of the input, no result behind one of lower score,
\* equal scores in input order; for the query "attention is all you need" the
\* title "Attention Is All You Need" comes before "A Survey".
C5_RankStableDescending ==
    rk_pc = "ranked" =>
      LET n == Len(rk_results)
      IN /\ Len(rk_sorted) = n
         /\ SeqToSet(rk_sorted) = 1..n
         /\ \A i, j \in 1..n :
              i < j =>
                /\ rk_common[rk_sorted[i]] >= rk_common[rk_sorted[j]]
                /\ rk_common[rk_sorted[i]] = rk_common[rk_sorted[j]]
                     => rk_sorted[i] < rk_sorted[j]
         /\ rk_query = AttentionQuery =>
              \A i, j \in 1..n :
                 /\ rk_results[rk_sorted[i]].title = AttentionTitle
                 /\ rk_results[rk_sorted[j]].title = SurveyTitle
                 => i < j

\* A ranked list in which a later input overtook an earlier one and two
\* results tie.
C5_Witness ==
    /\ rk_pc = "ranked"
    /\ rk_query = AttentionQuery
    /\ Len(rk_results) = 3
    /\ rk_results[1].title = SurveyTitle
    /\ rk_results[2].title = SurveyTitle
    /\ rk_results[3].title = AttentionTitle
    /\ rk_sorted = <<3, 1, 2>>

\* C6: clean_string_for_query(s) holds only lowercase ASCII letters, digits
\* and spaces, for every string s and for None, and cleaning the result again
\* gives the same string.
C6_CleanQueryCharsetIdempotent ==
    /\ cq_pc \in {"once", "twice"} =>
         \A i \in 1..Len(cq_out) :
            \/ cq_out[i] \in SeqToSet(ascii_lowercase)
            \/ cq_out[i] \in SeqToSet(digits)
            \/ cq_out[i] = " "
    /\ cq_pc = "twice" => cq_out2 = cq_out

C6_Witness ==
    /\ cq_pc = "twice"
    /\ cq_s # None
    /\ "A" \in SeqToSet(cq_s[1])
    /\ "_" \in SeqToSet(cq_s[1])
    /\ cq_out # cq_s[1]

\* Whether the raw record of the result object carries no DOI.
C9_DoiEmpty ==
    IF en_res.variant = "crossref"
    THEN en_res.raw.DOI \in {None, Some(<<>>)}
    ELSE en_res.raw.doi \in {None, Some(<<>>)}

\* C9: for a CrossrefResult or ArxivResult whose DOI is empty, get_entry
\* yields an entry synthesized from the result's own title and author and
\* makes no network call; a network fetch happens only for a non-empty DOI.
C9_NoDoiSynthesizesWithoutNetwork ==
    /\ (en_calls > 0 /\ C9_DoiEmpty) =>
         /\ en_net = 0
         /\ en_last.how \in {"synthesized", "cached"}
         /\ en_bibtex # None
         /\ en_bibtex[1].source = "synthesized"
         /\ en_bibtex[1].title = Title(en_res)
         /\ en_bibtex[1].author = Author(en_res)
         /\ en_last.ret = en_bibtex
    /\ en_net > 0 => ~C9_DoiEmpty

\* A second, forced call on a result whose DOI is '' synthesized again.
C9_Witness ==
    /\ en_calls >= 2
    /\ en_res.variant = "crossref"
    /\ en_res.raw.DOI = Some(<<>>)
    /\ en_last.force_update
    /\ en_last.how = "synthesized"
    /\ en_net = 0

\* The text of s before its first space.
C10_FirstWord(s) ==
    LET P == {i \in 1..Len(s) : s[i] = " "}
    IN IF P = {} THEN s ELSE SubSeq(s, 1, Min(P) - 1)

\* The text of s behind its last space.
C10_LastWord(s) ==
    LET P == {i \in 1..Len(s) : s[i] = " "}
    IN IF P = {} THEN s ELSE SubSeq(s, Max(P) + 1, Len(s))

\* The name of the first author: what precedes the first ' and '.
C10_FirstAuthor(s) ==
    LET P == {i \in 1..Len(s) : OccursAt(s, <<" ", "a", "n", "d", " ">>, i)}
    IN IF P = {} THEN s ELSE SubSeq(s, 1, Min(P) - 1)

C10_KeyChars == SeqToSet(ascii_lowercase) \cup SeqToSet(digits) \cup {"_"}

\* A word in lowercase, without what is no lowercase letter, digit or '_'.
C10_Cleaned(w) ==
    SelectSeq([i \in 1..Len(w) |-> LowerChar(w[i])],
              LAMBDA c : c \in C10_KeyChars)

C10_Synthesized == en_bibtex # None /\ en_bibtex[1].source = "synthesized"

C7_NoCandidateFallsThrough ==
    (/\ t_outcome # "pending"
     /\ ~t_syn
     /\ text_chunks = <<>>
     /\ pp_exc # "UnboundLocalError")
    => /\ t_outcome = "returned"
       /\ ~Truthy(pdf_text.title)
       /\ pp_pc = "done" =>
            metadata.title = IF Truthy(pdf_metadata.title)
                             THEN pdf_metadata.title
                             ELSE filename.title

\* C8: in _parse_pdf_metadata and in _parse_pdf_text alike, a PDFSyntaxError
\* signalled at any point of the pass makes the pass return an empty
\* Metadata, whatever it had recorded, and no exception leaves it.
C8_SyntaxErrorYieldsEmptyMetadata ==
    /\ m_syn # "none" =>
         /\ m_outcome = "returned"
         /\ pdf_metadata = EmptyMetadata
         /\ pp_exc = "none"
    /\ t_syn =>
         /\ t_outcome = "returned"
         /\ pdf_text = EmptyMetadata
         /\ pp_exc = "none"

C12_NoResultsEndsWithNotice ==
    /\ lk_pc = "format" => selected_entry # None
    /\ (/\ entries = <<>>
        /\ sel # None
        /\ sel_str # Some(<<"q">>)
        /\ lk_exit # "running"
        /\ lk_exc # "ValueError")
       => /\ lk_exit = "ok"
          /\ \E i \in 1..Len(lk_out) : lk_out[i] = "No results"

\* C13: in _query_string the failure of one provider gives the empty list
\* for that provider and no exception, and the results of the other provider
\* are still ranked and returned.
C13_ProviderFailureGivesEmptyList ==
    /\ "crossref" \in lk_failed =>
         /\ lk_pc # "raised"
         /\ entries_crossref = <<>>
    /\ "arxiv" \in lk_failed =>
         /\ entries_arxiv = <<>>
         /\ lk_pc # "qs_rank" =>
              /\ Len(entries) = Len(entries_crossref)
              /\ \A i \in 1..Len(entries) : entries[i].variant = "crossref"

\* C14: a selection typed at the prompt that is neither q nor the index of a
\* listed result ends the command with no error and selects no entry (the
\* user is asked again).
C14_InvalidSelectionRejected ==
    LET typed == sel_str[1]
        listed == /\ IsIntLiteral(typed)
                  /\ 0 <= IntValue(typed)
                  /\ IntValue(typed) < Len(entries)
    IN (sel_str # None /\ typed # <<"q">> /\ ~listed)
       => /\ lk_exc \notin {"ValueError", "IndexError"}
          /\ selected_entry = None

\* The chunks at the places I, up to place n, in document order, joined by
\* single spaces.
RECURSIVE C15_Join(_, _, _)
C15_Join(chunks, I, n) ==
    IF n = 0 THEN <<>>
    ELSE LET before == C15_Join(chunks, I, n - 1)
         IN IF n \notin I THEN before
            ELSE IF \A i \in I : i >= n THEN chunks[n]
            ELSE before \o <<" ">> \o chunks[n]

\* C15: the title built is the concatenation, in document order and
\* separated by single spaces, of whole cleaned texts of recorded
\* candidates, each of which has the largest font size recorded; no
\* candidate of a smaller size contributes.
C15_TitleJoinsLargestCandidates ==
    tb_pc = "built" =>
      \E I \in SUBSET (1..Len(tb_chunks)) :
        /\ \A i \in I : \A j \in 1..Len(tb_sizes) : tb_sizes[i] >= tb_sizes[j]
        /\ tb_title[1] = C15_Join(tb_chunks, I, Len(tb_chunks))

\* Of a small, a large and another large candidate the title takes the two
\* large ones.
C15_Witness ==
    /\ tb_pc = "built"
    /\ tb_sizes = <<10, 12, 12>>
    /\ tb_chunks = << <<"a">>, <<"b", "c">>, <<"a">> >>
    /\ tb_max_chars = 6
    /\ tb_title = Some(<<"b", "c", " ", "a">>)

\* The places of the candidates of the threshold size.
C16_Threshold ==
    {i \in 1..Len(tb_chunks) :
       \A j \in 1..Len(tb_sizes) : tb_sizes[i] >= tb_sizes[j]}

\* query after the candidates at the places I up to n were appended, each
\* behind a space.
RECURSIVE C16_Query(_, _)
C16_Query(I, n) ==
    IF n = 0 THEN <<>>
    ELSE IF n \in I THEN C16_Query(I, n - 1) \o <<" ">> \o tb_chunks[n]
    ELSE C16_Query(I, n - 1)

C16_Overflows(I, j) ==
    Len(C16_Query(I, j - 1)) + 1 + Len(tb_chunks[j]) > tb_max_chars

C17_ScannedText ==
    /\ t_scanned' = t_scanned + 1
    /\ t_element'[1].isText

\* C17: a text container is recorded as a candidate exactly when its raw
\* text has at most max_lines newlines and its cleaned text has between
\* min_words and max_words words; a rejected container adds neither a chunk
\* nor a size, and the two lists are always equally long.
C17_FiltersDecideRecording ==
    [][C17_ScannedText =>
         LET text == get_text(t_element'[1])
             cleaned == TextStripped(text)
             words == count(cleaned, " ") + 1
             passes == /\ count(text, "\n") <= pp_limits.max_lines
                       /\ pp_limits.min_words <= words
                       /\ words <= pp_limits.max_words
         IN /\ IF passes
               THEN /\ text_chunks' = Append(text_chunks, cleaned)
                    /\ Len(text_sizes') = Len(text_sizes) + 1
               ELSE /\ text_chunks' = text_chunks
                    /\ text_sizes' = text_sizes
            /\ Len(text_chunks') = Len(text_sizes')]_vars

\* The character glyphs of the first n lines of an element, in order.
RECURSIVE C18_Chars(_, _)
C18_Chars(lines, n) ==
    IF n = 0 THEN <<>>
    ELSE C18_Chars(lines, n - 1) \o SelectSeq(lines[n], LAMBDA g : g.ltchar)

\* C18: the size recorded for an accepted container is the integer size of
\* the second character of the container when it has two or more (wherever
\* its lines break), and of its only character when it has one.
C18_SizeOfSecondCharacter ==
    [][(C17_ScannedText /\ Len(text_sizes') = Len(text_sizes) + 1) =>
         LET lines == t_element'[1].lines
             chars == C18_Chars(lines, Len(lines))
             recorded == text_sizes'[Len(text_sizes')]
         IN /\ Len(chars) >= 2 => recorded = chars[2].size \div 10
            /\ Len(chars) = 1 => recorded = chars[1].size \div 10]_vars

\* What a pattern finds on the lines of an element, taken one by one.
C19_OnSomeLine(element, Match(_)) ==
    {Match([i \in 1..Len(element.lines[n]) |-> element.lines[n][i].text]) :
       n \in 1..Len(element.lines)} \ {None}

\* C19: a scanned text container whose raw text holds an arXiv: identifier
\* or a DOI on any of its lines has that identifier recorded when none of
\* the kind was recorded before, whether or not the filters skip it.
C19_IdentifierOnAnyLineRecorded ==
    [][C17_ScannedText =>
         LET arxiv_ids == C19_OnSomeLine(t_element'[1], MatchArxivText)
             dois == C19_OnSomeLine(t_element'[1], MatchDoi)
         IN /\ (t_metadata.arxiv_id = None /\ arxiv_ids # {}) =>
                 t_metadata'.arxiv_id \in arxiv_ids
            /\ (t_metadata.doi = None /\ dois # {}) =>
                 t_metadata'.doi \in dois]_vars

\* The first of a list of optional values that is present.
RECURSIVE C20_First(_)
C20_First(opts) ==
    IF opts = <<>> THEN None
    ELSE IF Head(opts) # None THEN Head(opts)
    ELSE C20_First(Tail(opts))

\* What a pattern finds in the values of an info dictionary, in its order.
C20_InfoMatches(dict, Match(_)) ==
    [i \in 1..Len(dict) |->
       IF dict[i][2].bytes THEN Match(Decode(dict[i][2].text)) ELSE None]

\* C20: within the text pass and within the document-metadata pass, an
\* arxiv_id or doi that is set is not changed by a later match: the value
\* the pass ends with is that of the first matching item in scan order.
C20_FirstMatchKept ==
    [][/\ t_metadata.arxiv_id # None =>
            t_metadata'.arxiv_id = t_metadata.arxiv_id
       /\ t_metadata.doi # None => t_metadata'.doi = t_metadata.doi
       /\ C17_ScannedText =>
            \A text \in {get_text(t_element'[1])} :
               /\ t_metadata.arxiv_id = None =>
                    t_metadata'.arxiv_id = MatchArxivText(text)
               /\ t_metadata.doi = None =>
                    t_metadata'.doi = MatchDoi(text)
       /\ IF pp_pc = "meta_return"
          THEN /\ pdf_metadata'.arxiv_id = m_metadata.arxiv_id
               /\ pdf_metadata'.doi = m_metadata.doi
          ELSE /\ m_metadata.arxiv_id # None =>
                    m_metadata'.arxiv_id = m_metadata.arxiv_id
               /\ m_metadata.doi # None => m_metadata'.doi = m_metadata.doi
       /\ (m_info = None /\ m_info' # None /\ m_info'[1].present) =>
            /\ m_metadata.arxiv_id = None =>
                 m_metadata'.arxiv_id =
                   C20_First(C20_InfoMatches(m_info'[1].dict, MatchArxivText))
            /\ m_metadata.doi = None =>
                 m_metadata'.doi =
                   C20_First(C20_InfoMatches(m_info'[1].dict, MatchDoi))]_vars

\* The second container holds another arXiv identifier and a DOI: the
\* identifier of the first container is kept and the DOI is recorded.
C20_Witness ==
    /\ t_scanned = 2
    /\ t_element = Some(OldArxivDoiElement)
    /\ t_metadata.arxiv_id = Some(SampleArxivId)
    /\ t_metadata.doi = Some(<<"1", "0", ".", "2", "0", "0", "0", "/", "y",
                               "2">>)

\* The round of the annotation loop just made.
C21_Examined ==
    /\ pp_pc = "meta_annots"
    /\ m_annots' = m_annots + 1

\* C21: an annotation of the first page that fails to resolve (no URI, a
\* URI that is not bytes, a malformed or unresolvable annotation object) is
\* skipped without raising and the loop goes on to the remaining
\* annotations; an arXiv link in an annotation examined later is recorded
\* when no arxiv_id was recorded before.
C21_FailedAnnotationSkipped ==
    [][C21_Examined =>
         LET a == m_annot'[1]
         IN IF a.kind = "uri"
            THEN (m_metadata.arxiv_id = None
                  /\ MatchNewArxivName(Decode(a.uri)) # None) =>
                   m_metadata'.arxiv_id = MatchNewArxivName(Decode(a.uri))
            ELSE /\ pp_pc' = "meta_annots"
                 /\ pp_exc' = pp_exc
                 /\ m_outcome' = m_outcome
                 /\ m_metadata' = m_metadata]_vars

\* Whether the entry key of an info dictionary is missing or empty.
C22_Absent(info, key) ==
    \/ ~info.present
    \/ InfoGet(info.dict, key) = None
    \/ /\ InfoGet(info.dict, key)[1].bytes
       /\ Decode(InfoGet(info.dict, key)[1].text) = <<>>

\* C22: for a document without information dictionary, or whose Title and
\* Author entries are missing or empty, _parse_pdf_metadata goes on to its
\* return without raising, leaves title and author absent and keeps the
\* arxiv_id recorded from the annotations.
C22_NoInfoReturnsQuietly ==
    [][(pp_pc = "meta_info" /\ m_info' # None
        /\ C22_Absent(m_info'[1], "Title")
        /\ C22_Absent(m_info'[1], "Author")) =>
         /\ pp_pc' = "meta_return"
         /\ pp_exc' = pp_exc
         /\ m_outcome' = m_outcome
         /\ m_metadata'.title = None
         /\ m_metadata'.author = None
         /\ m_metadata.arxiv_id # None =>
              m_metadata'.arxiv_id = m_metadata.arxiv_id]_vars

\* The provider call just issued, when one was.
C23_Issued(c) == lk_calls' = Append(lk_calls, c)

\* The identifier lookups _query_file owes to the identifiers of its
\* Metadata, in their order.
C23_IdLookups ==
    (IF Truthy(lk_metadata.doi) THEN <<"crossref_doi">> ELSE <<>>)
    \o (IF Truthy(lk_metadata.arxiv_id) THEN <<"arxiv_id">> ELSE <<>>)

\* C23: _query_file asks DOI lookup, arXiv-ID lookup, free-text query in
\* that order and stops at the first answer that is not empty: the arXiv-ID
\* lookup is issued only when the DOI is absent or its lookup answered the
\* empty list, the free-text query only when every identifier was absent or
\* its lookup empty, and an identifier lookup that answers a result is
\* returned as it is, no later query being issued.
C23_SourcesInOrderUntilAnswer ==
    [][~Truthy(lk_query) =>
         /\ lk_calls' # lk_calls =>
              \E c \in {"crossref_doi", "arxiv_id", "crossref", "arxiv"} :
                 C23_Issued(c)
         /\ C23_Issued("crossref_doi") =>
              Truthy(lk_metadata.doi) /\ lk_calls = <<>>
         /\ C23_Issued("arxiv_id") =>
              /\ Truthy(lk_metadata.arxiv_id)
              /\ entries = <<>>
              /\ lk_calls = IF Truthy(lk_metadata.doi)
                            THEN <<"crossref_doi">> ELSE <<>>
         /\ C23_Issued("crossref") =>
              /\ entries = <<>>
              /\ lk_calls = C23_IdLookups
         /\ C23_Issued("arxiv") =>
              lk_calls = Append(C23_IdLookups, "crossref")
         /\ \A c \in {"crossref_doi", "arxiv_id"} :
              /\ (C23_Issued(c) /\ entries' # <<>>) =>
                   Len(entries') = 1 /\ lk_pc' = "select"
              /\ (lk_calls # <<>> /\ lk_calls[Len(lk_calls)] = c
                  /\ entries # <<>>) =>
                   lk_calls' = lk_calls /\ entries' = entries]_vars

\* Both identifier lookups answered the empty list and the free-text query
\* was sent to both providers.
C23_Witness ==
    /\ ~Truthy(lk_query)
    /\ lk_calls = <<"crossref_doi", "arxiv_id", "crossref", "arxiv">>
    /\ lk_pc = "select"
    /\ entries # <<>>

\* The space-delimited words of a cleaned Optional[str].
C24_Words(s) == SeqToSet(split(clean_string_for_query(s), <<" ">>))

\* C24: the free-text query _query_file builds from a Metadata with title
\* and author keeps every word of both: each word of the cleaned title and
\* each word of the cleaned author is a space-delimited token of the query
\* handed to _query_string.
C24_QueryKeepsEveryWord ==
    (/\ ~Truthy(lk_query)
     /\ qs_query # None
     /\ Truthy(lk_metadata.title) /\ lk_metadata.title[1] # <<>>
     /\ Truthy(lk_metadata.author) /\ lk_metadata.author[1] # <<>>) =>
      (C24_Words(lk_metadata.title) \cup C24_Words(lk_metadata.author))
        \subseteq SeqToSet(split(qs_query[1], <<" ">>))

\* C25: the font size recorded for an accepted container is the size of a
\* character of that container: the round that accepts a container records
\* one size, raises nothing, and the size is that of one of the container's
\* own glyphs, also when its first line holds no character glyph.
C25_SizeIsOfOwnCharacter ==
    [][(C17_ScannedText /\ text_chunks' # text_chunks) =>
         LET lines == t_element'[1].lines
             chars == C18_Chars(lines, Len(lines))
         IN /\ pp_exc' = pp_exc
            /\ Len(text_sizes') = Len(text_sizes) + 1
            /\ text_sizes'[Len(text_sizes')]
                 \in {IntSize(chars[i].size) : i \in 1..Len(chars)}]_vars

\* The query tokens that are words and occur among the title words or the
\* author segments of a result.
C26_RealWordsShared(res, query) ==
    LET query_words == split(clean_string_for_query(Some(query)), <<" ">>)
        title_words == C24_Words(Some(res.title))
        author_words == SeqToSet(split(clean_string_for_query(
                            Some(res.author)), <<" ", "a", "n", "d", " ">>))
    IN {i \in 1..Len(query_words) :
          /\ query_words[i] # <<>>
          /\ query_words[i] \in title_words \cup author_words}

\* C26: the score of a candidate is the number of query tokens found among
\* its title tokens or author segments, and only real words count: the
\* empty tokens that punctuation or consecutive spaces leave in the query
\* and in the title never raise a score, so a candidate sharing no word
\* with the query scores 0.
C26_OnlyRealWordsCount ==
    rk_pc = "ranked" =>
      \A i \in 1..Len(rk_results) :
         rk_common[i] =
           Cardinality(C26_RealWordsShared(rk_results[i], rk_query))

\* C27: when the fetch or the parse of its answer fails inside get_entry,
\* self._bibtex is what it was before the call (None on a first call, the
\* previous entry on a forced refresh) and nothing is returned; while
\* nothing is cached, a call resolves again and never answers from the
\* cache.
C27_FailedFetchKeepsCache ==
    [][en_calls' = en_calls + 1 =>
         /\ en_last'.how = "raised" =>
              /\ en_bibtex' = en_bibtex
              /\ en_last'.ret = None
         /\ en_bibtex = None => en_last'.how # "cached"]_vars

\* A forced refresh failed after an entry had been fetched: the entry
\* fetched before is still cached.
C27_Witness ==
    /\ en_last.how = "raised"
    /\ en_last.force_update
    /\ en_bibtex # None
    /\ en_bibtex[1].source = "fetched"

====
